---- MODULE Spec2Model ----
(***************************************************************************)
(* Revenue aggregation engine of the station operations backend            *)
(* (src/stripe_api.js): civil-date arithmetic in America/Chicago, the      *)
(* ledger aggregators aggregateRents / aggregateCharges, and the /rents/*  *)
(* report routes.                                                          *)
(*                                                                         *)
(* Conventions of the model                                                *)
(*  - an instant is a number of Unix seconds;                              *)
(*  - a civil date ("YYYY-MM-DD", fixed width, zero padded) is the tuple   *)
(*    <<y, m, d>>; the order of such strings is the lexicographic order of *)
(*    the tuples;                                                          *)
(*  - an optional value (a JSON field that may be absent or null) is a     *)
(*    sequence of length 0 or 1.                                           *)
(***************************************************************************)
EXTENDS Integers, Sequences, FiniteSets, TLC

VARIABLES
    aggPolicy,   \* which aggregator is running: "rents" | "charges" | "none"
    aggEntries,  \* the entry list the aggregator was called with
    aggDayKeys,  \* the dayKeys argument: [isArray, keys]
    aggIdx,      \* number of entries the for-loop has folded so far
    aggAcc,      \* the locals of the call: positiveCents, negativeCents, byDay
    aggPhase,    \* which call of a run this is: "first" | "between" | "again"
    aggFirst,    \* arguments and result of the first call, once it returned
    now,         \* DateTime.now(), in Unix seconds
    stripe,      \* whether STRIPE_SECRET_KEY is set (the stripe client exists)
    txns,        \* upstream balance transactions, oldest first
    charges,     \* upstream charges, oldest first
    req,         \* the report request being served
    pc,          \* "idle" | "fetch" | "list" | "done"
    fetch,       \* the two ledger fetches of the request, by window
    resp,        \* the HTTP response of the request
    io,          \* what the request did outside the process: upstream list
                 \* calls, database client and queries, the failure it met
    partner,     \* what runs beside the pop request: "pop" | "order" |
                 \* "token_route" | "updater"
    proc,        \* the two concurrent requests of the device services
    tokenRefreshPromise, \* the refresh guard of each module
    refresh,     \* the refresh promise each request has created
    timers,      \* the requests whose refresh has a guard reset pending
    tokenRows,   \* the rows of the token table
    polling,     \* the Telegram poller: timers, requests, lastUpdateId
    telegram     \* the Telegram side: unconfirmed updates, handled updates

aggVars == <<aggPolicy, aggEntries, aggDayKeys, aggIdx, aggAcc, aggPhase, aggFirst>>

routeVars == <<now, stripe, txns, charges, req, pc, fetch, resp, io>>

popVars == <<partner, proc, tokenRefreshPromise, refresh, timers, tokenRows>>

pollVars == <<polling, telegram>>

vars == <<aggPolicy, aggEntries, aggDayKeys, aggIdx, aggAcc, aggPhase, aggFirst,
          now, stripe, txns, charges, req, pc, fetch, resp, io,
          partner, proc, tokenRefreshPromise, refresh, timers, tokenRows,
          polling, telegram>>

----------------------------------------------------------------------------
(* Bounds of the model *)

\* longest entry list handed to an aggregator
MaxLen == 3

\* most entries the upstream ledgers hold (transactions and charges together)
MaxLedger == 3

\* most entries the upstream puts on one page (the code asks for PageLimit)
PageMax == 2

\* most updates Telegram receives for the bot
MaxUpdate == 4

----------------------------------------------------------------------------
(* Optional values *)

None == <<>>
Some(x) == <<x>>

\* the element of a one-element set; {F(x) : x \in {e}} evaluates e once and
\* hands its value to F, which is how the locals of the code are modelled
Only(S) == CHOOSE v \in S : TRUE

----------------------------------------------------------------------------
(* Civil calendar (what luxon computes for ISO dates) *)

IsLeap(y) == (y % 4 = 0) /\ ((y % 100 # 0) \/ (y % 400 = 0))

DaysInMonth(y, m) ==
    IF m = 2 THEN (IF IsLeap(y) THEN 29 ELSE 28)
    ELSE IF m \in {4, 6, 9, 11} THEN 30 ELSE 31

\* days from 1970-01-01 to the civil date <<y, m, d>>
DaysFromCivil(date) ==
    LET y0  == IF date[2] <= 2 THEN date[1] - 1 ELSE date[1]
        era == y0 \div 400
        yoe == y0 - era * 400
        mp  == IF date[2] > 2 THEN date[2] - 3 ELSE date[2] + 9
        doy == (153 * mp + 2) \div 5 + date[3] - 1
        doe == yoe * 365 + yoe \div 4 - yoe \div 100 + doy
    IN  era * 146097 + doe - 719468

\* the civil date that lies z days after 1970-01-01
CivilFromDays(z) ==
    LET z0  == z + 719468
        era == z0 \div 146097
        doe == z0 - era * 146097
        yoe == (doe - doe \div 1460 + doe \div 36524 - doe \div 146096) \div 365
        doy == doe - (365 * yoe + yoe \div 4 - yoe \div 100)
        mp  == (5 * doy + 2) \div 153
        d   == doy - (153 * mp + 2) \div 5 + 1
        m   == IF mp < 10 THEN mp + 3 ELSE mp - 9
        y   == yoe + era * 400 + (IF m <= 2 THEN 1 ELSE 0)
    IN  <<y, m, d>>

\* 0 = Sunday ... 6 = Saturday (1970-01-01 was a Thursday)
Weekday(days) == (days + 4) % 7

\* America/Chicago: daylight time from the second Sunday of March, 02:00 CST
\* (08:00 UTC), to the first Sunday of November, 02:00 CDT (07:00 UTC)
DstStartUnix(y) ==
    (DaysFromCivil(<<y, 3, 8>>) + ((7 - Weekday(DaysFromCivil(<<y, 3, 8>>))) % 7))
        * 86400 + 8 * 3600

DstEndUnix(y) ==
    (DaysFromCivil(<<y, 11, 1>>) + ((7 - Weekday(DaysFromCivil(<<y, 11, 1>>))) % 7))
        * 86400 + 7 * 3600

\* offset of America/Chicago from UTC at an instant, in seconds
ChicagoOffset(unixSeconds) ==
    Only({ IF unixSeconds >= DstStartUnix(y) /\ unixSeconds < DstEndUnix(y)
           THEN -18000 ELSE -21600 :
           y \in {CivilFromDays(unixSeconds \div 86400)[1]} })

\* the instant at which Chicago wall clocks show `date` and `secs` seconds
\* after midnight (secs outside the 02:00-03:00 change-over hour)
ChicagoLocalToUnix(date, secs) ==
    LET local == DaysFromCivil(date) * 86400 + secs
        std   == local + 21600
    IN  IF ChicagoOffset(std) = -21600 THEN std ELSE local + 18000

\* a day key cut from the UTC date of the instant
chicagoDateStringFromUnix_UtcDate(unixSeconds) ==
    CivilFromDays(unixSeconds \div 86400)

\* DateTime.fromSeconds(u, {zone:'utc'}).setZone(CHICAGO_ZONE).toISODate()
chicagoDateStringFromUnix(unixSeconds) ==
    CivilFromDays((unixSeconds + ChicagoOffset(unixSeconds)) \div 86400)

\* dt.plus({days: n}) on a civil date
PlusDays(date, n) == CivilFromDays(DaysFromCivil(date) + n)

\* a.diff(b, 'days') for two start-of-day civil dates
DiffDays(a, b) == DaysFromCivil(a) - DaysFromCivil(b)

\* the order of "YYYY-MM-DD" strings
DateLess(a, b) ==
    \/ a[1] < b[1]
    \/ a[1] = b[1] /\ a[2] < b[2]
    \/ a[1] = b[1] /\ a[2] = b[2] /\ a[3] < b[3]

DateLeq(a, b) == a = b \/ DateLess(a, b)

MonthNames ==
    <<"Jan", "Feb", "Mar", "Apr", "May", "Jun",
      "Jul", "Aug", "Sep", "Oct", "Nov", "Dec">>

\* "Feb 1, 2026" as <<month name, day, year>>
formatDateLabel(dateStr) == <<MonthNames[dateStr[2]], dateStr[3], dateStr[1]>>

----------------------------------------------------------------------------
(* Aggregators *)

REVENUE_TYPES ==
    {"charge", "payment", "payment_refund", "refund", "payment_reversal",
     "payment_failure_refund", "stripe_fee", "stripe_fx_fee", "tax_fee"}

ZeroBucket(key) == [date |-> formatDateLabel(key), rents |-> 0, netCents |-> 0]

\* dayKeys = null
NoDayKeys == [isArray |-> FALSE, keys |-> <<>>]

\* dayKeys = an array of date keys
DayKeysOf(keys) == [isArray |-> TRUE, keys |-> keys]

\* lines 125-132 / 155-162: byDay pre-initialised with dayKeys, totals at 0
AggStart(dayKeys) ==
    [positiveCents |-> 0,
     negativeCents |-> 0,
     byDay |-> IF dayKeys.isArray
               THEN [k \in {dayKeys.keys[i] : i \in 1..Len(dayKeys.keys)}
                        |-> ZeroBucket(k)]
               ELSE [k \in {} |-> ZeroBucket(k)]]

\* if (!byDay[key]) byDay[key] = {date, rents: 0, netCents: 0}
EnsureBucket(byDay, key) ==
    [k \in DOMAIN byDay \cup {key} |->
        IF k \in DOMAIN byDay THEN byDay[k] ELSE ZeroBucket(k)]

\* byDay[key].netCents += net; if (rent) byDay[key].rents += 1
AddToBucket(byDay, key, net, rent) ==
    [byDay EXCEPT ![key] =
        [@ EXCEPT !.netCents = @ + net,
                  !.rents = @ + (IF rent THEN 1 ELSE 0)]]

\* a fold that skips the revenue-type filter
RentsFold_NoTypeFilter(acc, bt) ==
    LET net  == IF bt.net # None THEN bt.net[1] ELSE 0
        type == IF bt.type # None THEN bt.type[1] ELSE ""
        key  == chicagoDateStringFromUnix(bt.created)
    IN  [positiveCents |-> acc.positiveCents + (IF net > 0 THEN net ELSE 0),
         negativeCents |-> acc.negativeCents + (IF net < 0 THEN net ELSE 0),
         byDay |-> AddToBucket(EnsureBucket(acc.byDay, key), key, net,
                               type = "charge" /\ net > 0)]

\* a fold that counts every charge entry as a rent, whatever its net
RentsFold_AnyChargeIsRent(acc, bt) ==
    LET net  == IF bt.net # None THEN bt.net[1] ELSE 0
        type == IF bt.type # None THEN bt.type[1] ELSE ""
        key  == chicagoDateStringFromUnix(bt.created)
    IN  IF type \notin REVENUE_TYPES THEN acc
        ELSE [positiveCents |-> acc.positiveCents + (IF net > 0 THEN net ELSE 0),
              negativeCents |-> acc.negativeCents + (IF net < 0 THEN net ELSE 0),
              byDay |-> AddToBucket(EnsureBucket(acc.byDay, key), key, net,
                                    type = "charge")]

\* a fold that creates the day bucket before looking at the type
RentsFold_BucketFirst(acc, bt) ==
    LET net  == IF bt.net # None THEN bt.net[1] ELSE 0
        type == IF bt.type # None THEN bt.type[1] ELSE ""
        key  == chicagoDateStringFromUnix(bt.created)
    IN  IF type \notin REVENUE_TYPES
        THEN [acc EXCEPT !.byDay = EnsureBucket(acc.byDay, key)]
        ELSE [positiveCents |-> acc.positiveCents + (IF net > 0 THEN net ELSE 0),
              negativeCents |-> acc.negativeCents + (IF net < 0 THEN net ELSE 0),
              byDay |-> AddToBucket(EnsureBucket(acc.byDay, key), key, net,
                                    type = "charge" /\ net > 0)]

\* one iteration of the for-loop of aggregateRents
RentsFold(acc, bt) ==
    LET net  == IF bt.net # None THEN bt.net[1] ELSE 0
        type == IF bt.type # None THEN bt.type[1] ELSE ""
        key  == chicagoDateStringFromUnix(bt.created)
    IN  IF type \notin REVENUE_TYPES THEN acc
        ELSE [positiveCents |-> acc.positiveCents + (IF net > 0 THEN net ELSE 0),
              negativeCents |-> acc.negativeCents + (IF net < 0 THEN net ELSE 0),
              byDay |-> AddToBucket(EnsureBucket(acc.byDay, key), key, net,
                                    type = "charge" /\ net > 0)]

\* a fold that counts the refund of a charge that captured nothing
ChargesFold_RefundAlways(acc, ch) ==
    LET captured == IF ch.amount_captured # None THEN ch.amount_captured[1]
                    ELSE IF ch.amount # None THEN ch.amount[1] ELSE 0
        refunded == IF ch.amount_refunded # None THEN ch.amount_refunded[1] ELSE 0
        net      == IF captured > 0 THEN captured - refunded ELSE 0
        key      == chicagoDateStringFromUnix(ch.created)
    IN  [positiveCents |-> acc.positiveCents + captured,
         negativeCents |-> acc.negativeCents + refunded,
         byDay |-> AddToBucket(EnsureBucket(acc.byDay, key), key, net, net > 0)]

\* a fold that flags a day as rented instead of counting its rents
ChargesFold_RentFlag(acc, ch) ==
    LET captured == IF ch.amount_captured # None THEN ch.amount_captured[1]
                    ELSE IF ch.amount # None THEN ch.amount[1] ELSE 0
        refunded == IF ch.amount_refunded # None THEN ch.amount_refunded[1] ELSE 0
        net      == IF captured > 0 THEN captured - refunded ELSE 0
        refundForNegative == IF captured > 0 THEN refunded ELSE 0
        key      == chicagoDateStringFromUnix(ch.created)
        byDay    == AddToBucket(EnsureBucket(acc.byDay, key), key, net, FALSE)
    IN  [positiveCents |-> acc.positiveCents + captured,
         negativeCents |-> acc.negativeCents + refundForNegative,
         byDay |-> [byDay EXCEPT ![key].rents = IF net > 0 THEN 1 ELSE @]]

\* one iteration of the for-loop of aggregateCharges
ChargesFold(acc, ch) ==
    LET captured == IF ch.amount_captured # None THEN ch.amount_captured[1]
                    ELSE IF ch.amount # None THEN ch.amount[1] ELSE 0
        refunded == IF ch.amount_refunded # None THEN ch.amount_refunded[1] ELSE 0
        net      == IF captured > 0 THEN captured - refunded ELSE 0
        refundForNegative == IF captured > 0 THEN refunded ELSE 0
        key      == chicagoDateStringFromUnix(ch.created)
    IN  [positiveCents |-> acc.positiveCents + captured,
         negativeCents |-> acc.negativeCents + refundForNegative,
         byDay |-> AddToBucket(EnsureBucket(acc.byDay, key), key, net, net > 0)]

RECURSIVE RentsLoop(_, _, _)
RentsLoop(acc, bts, i) ==
    IF i > Len(bts) THEN acc
    ELSE Only({RentsLoop(a, bts, i + 1) : a \in {RentsFold(acc, bts[i])}})

RECURSIVE ChargesLoop(_, _, _)
ChargesLoop(acc, chs, i) ==
    IF i > Len(chs) THEN acc
    ELSE Only({ChargesLoop(a, chs, i + 1) : a \in {ChargesFold(acc, chs[i])}})

aggregateRents(balanceTransactions, dayKeys) ==
    RentsLoop(AggStart(dayKeys), balanceTransactions, 1)

aggregateCharges(chargeList, dayKeys) ==
    ChargesLoop(AggStart(dayKeys), chargeList, 1)

----------------------------------------------------------------------------
(* Inputs of the aggregator specification *)

Day1 == <<2026, 3, 1>>
Day2 == <<2026, 3, 2>>
Day3 == <<2026, 3, 3>>

Noon(date) == ChicagoLocalToUnix(date, 12 * 3600)

Bt(date, type, net) == [created |-> Noon(date), type |-> type, net |-> net]

\* the instant at which UTC clocks show `date` and `secs` seconds after midnight
AtUtc(date, secs) == DaysFromCivil(date) * 86400 + secs

\* a balance transaction created at a given instant
BtAt(created, type, net) == [created |-> created, type |-> type, net |-> net]

\* a summer day, on which Chicago is on daylight time
DaySummer == <<2026, 7, 2>>

\* balance transactions: every recognised type, an unrecognised one
\* ("payout"), a missing type, zero and missing net, and entries created
\* around local midnight (05:59 and 06:00 UTC in winter, 05:30 UTC in summer)
RentEntries ==
    { Bt(Day1, Some("charge"), Some(300)),
      Bt(Day2, Some("charge"), Some(500)),
      Bt(Day1, Some("charge"), Some(0)),
      Bt(Day3, Some("charge"), None),
      Bt(Day1, Some("stripe_fee"), Some(-9)),
      Bt(Day2, Some("payment"), Some(300)),
      Bt(Day3, Some("refund"), Some(-300)),
      Bt(Day1, Some("payment_refund"), Some(-300)),
      Bt(Day2, Some("payment_reversal"), Some(-9)),
      Bt(Day1, Some("payment_failure_refund"), Some(300)),
      Bt(Day2, Some("stripe_fx_fee"), Some(-9)),
      Bt(Day1, Some("tax_fee"), Some(-9)),
      Bt(Day2, Some("payout"), Some(-300)),
      Bt(Day3, Some("payout"), Some(500)),
      Bt(Day1, None, Some(300)),
      BtAt(AtUtc(Day2, 5 * 3600 + 59 * 60), Some("charge"), Some(500)),
      BtAt(AtUtc(Day2, 6 * 3600), Some("charge"), Some(300)),
      BtAt(AtUtc(DaySummer, 5 * 3600 + 30 * 60), Some("charge"), Some(300)) }

Ch(date, captured, amount, refunded) ==
    [created |-> Noon(date), amount_captured |-> captured,
     amount |-> amount, amount_refunded |-> refunded]

\* charges: captured and refunded, zero capture with and without a refund,
\* a legacy charge that only carries `amount`, a missing refund field
ChargeEntries ==
    { Ch(Day1, Some(300), Some(300), Some(0)),
      Ch(Day2, Some(500), Some(500), Some(100)),
      Ch(Day1, Some(300), Some(300), Some(300)),
      Ch(Day1, Some(0), Some(300), Some(300)),
      Ch(Day3, Some(0), Some(300), Some(300)),
      Ch(Day2, Some(0), Some(500), Some(0)),
      Ch(Day2, None, Some(300), None),
      Ch(Day3, Some(500), Some(500), None) }

DayKeyChoices == {NoDayKeys, DayKeysOf(<<Day1, Day2>>)}

BoundedSeq(S, n) == UNION {[1..k -> S] : k \in 0..n}

----------------------------------------------------------------------------
(* Requests, responses and fetch state of the report routes *)

\* a "$<n>" display string: the sign toFixed prints and the digits
MoneyStr(neg, dollars) == [neg |-> neg, dollars |-> dollars]

\* path is the path of a request to the map service, one string a segment;
\* db is how the station directory behaves for the request; special is the
\* non-date value of from in the /stripe/* routes ("none", "empty" or "mtd")
NoReq == [route |-> "none", from |-> None, to |-> None, limit |-> None,
          station_id |-> "", db |-> "ok", special |-> "none", path |-> <<>>]

\* station_id is the station_id field of the station report; no handler
\* writes a station_ids field
NoResp == [status |-> 0, success |-> FALSE, kind |-> "none", data |-> <<>>,
           positive |-> 0, negative |-> 0, ppositive |-> 0, pnegative |-> 0,
           first |-> <<>>, last |-> <<>>, has_more |-> FALSE,
           station_id |-> None, station_ids |-> None]

\* the locals of one fetchAll...InRange call, with the page calls it has
\* made (log: cursor sent, ids received, has_more received) and the number
\* of its list calls that have not been answered yet
NoFetch == [gte |-> 0, lte |-> 0, customer |-> None, all |-> <<>>,
            startingAfter |-> None, done |-> TRUE,
            log |-> <<>>, outstanding |-> 0]

\* nothing done outside the process yet: list = upstream list calls issued,
\* limit = the limit of the single list call of /rents/recent and /stripe/*,
\* connects / queries / releases = pool.connect(), client.query() and
\* client.release() calls, error = the rejection the handler caught
\* (Some(statusCode), statusCode optional), order = the windows whose pages
\* arrived, in order of arrival
NoIo == [list |-> 0, limit |-> None, connects |-> 0, queries |-> 0,
         releases |-> 0, error |-> None, order |-> <<>>]

IdleFetch == [w \in {"primary", "comparison"} |-> NoFetch]

----------------------------------------------------------------------------
(* State of the device services (pop commands, order data, token refresh)  *)
(* and of the Telegram command poller                                      *)

\* the two requests that run side by side
Procs == {1, 2}

\* the modules that hold a tokenRefreshPromise of their own
Modules == {"user", "scan"}

\* a request of the device services. route: the handler serving it; path:
\* the request path; pc: where the handler stands; slot: the slot of the
\* command being sent; isRetry: the isRetry argument of the running call;
\* cmds / refreshes: command requests and refreshToken calls of the running
\* sendPopCommand / getOrderData invocation; awaiting: the request whose
\* refresh promise is awaited (0 = none); inflightAtCall: the request whose
\* refresh was in flight when refreshToken was called (0 = none); pushed:
\* data.length; okSlots: the slots whose command came back with
\* borrowstatus; lastCmd: the slot of the last command sent upstream; seen:
\* the COUNT(*) the updater read; status / count: the response
NoProc == [route |-> "none", path |-> <<>>, pc |-> "idle", slot |-> 0,
           isRetry |-> FALSE, cmds |-> 0, refreshes |-> 0, awaiting |-> 0,
           inflightAtCall |-> 0, pushed |-> 0, okSlots |-> 0, lastCmd |-> 0,
           seen |-> 0, status |-> 0, count |-> 0]

\* a refresh promise: "none" (not created), "pending" (its HTTP request is
\* in flight) or "settled" with the token it resolved to (None = null)
NoRefresh == [state |-> "none", token |-> None]

\* the poller before startTelegramCommandPolling: scheduled = pending
\* setTimeout(pollForMessages) timers, requests = the offsets of the
\* getUpdates calls in flight (0 = no offset), lastUpdateId
NoPolling == [scheduled |-> 0, requests |-> <<>>, lastUpdateId |-> 0]

\* the Telegram side: next = the id of the next update, unconfirmed = the
\* updates getUpdates still returns, handled = how often the poller has
\* handled each update
NoTelegram == [next |-> 1, unconfirmed |-> {},
               handled |-> [u \in 1..MaxUpdate |-> 0]]

PopIdle ==
    /\ partner = "pop"
    /\ proc = [p \in Procs |-> NoProc]
    /\ tokenRefreshPromise = [m \in Modules |-> 0]
    /\ refresh = [p \in Procs |-> NoRefresh]
    /\ timers = {}
    /\ tokenRows = <<>>

PollIdle ==
    /\ polling = NoPolling
    /\ telegram = NoTelegram

----------------------------------------------------------------------------
(* The aggregator as a state machine: one action per loop iteration *)

InitAgg ==
    /\ aggPolicy \in {"rents", "charges"}
    /\ aggEntries \in BoundedSeq(IF aggPolicy = "rents" THEN RentEntries
                                 ELSE ChargeEntries, MaxLen)
    /\ aggDayKeys \in DayKeyChoices
    /\ aggIdx = 0
    /\ aggAcc = AggStart(aggDayKeys)
    /\ aggPhase = "first"
    /\ aggFirst = None
    /\ now = 0
    /\ stripe = TRUE
    /\ txns = <<>>
    /\ charges = <<>>
    /\ req = NoReq
    /\ pc = "idle"
    /\ fetch = IdleFetch
    /\ resp = NoResp
    /\ io = NoIo
    /\ PopIdle
    /\ PollIdle

RentsStep ==
    /\ aggPolicy = "rents"
    /\ aggIdx < Len(aggEntries)
    /\ aggAcc' = RentsFold(aggAcc, aggEntries[aggIdx + 1])
    /\ aggIdx' = aggIdx + 1
    /\ UNCHANGED <<aggPolicy, aggEntries, aggDayKeys, aggPhase, aggFirst>>
    /\ UNCHANGED <<routeVars, popVars, pollVars>>

ChargesStep ==
    /\ aggPolicy = "charges"
    /\ aggIdx < Len(aggEntries)
    /\ aggAcc' = ChargesFold(aggAcc, aggEntries[aggIdx + 1])
    /\ aggIdx' = aggIdx + 1
    /\ UNCHANGED <<aggPolicy, aggEntries, aggDayKeys, aggPhase, aggFirst>>
    /\ UNCHANGED <<routeVars, popVars, pollVars>>

AggDone == aggPolicy # "none" /\ aggIdx = Len(aggEntries)

\* the arguments of the call that is running
AggArgs == [policy |-> aggPolicy, entries |-> aggEntries, dayKeys |-> aggDayKeys]

\* a call made for another request between two calls with the same arguments
OtherCall ==
    [policy  |-> "charges",
     entries |-> <<Ch(Day1, Some(300), Some(300), Some(100)),
                   Ch(Day3, Some(500), Some(500), Some(0))>>,
     dayKeys |-> NoDayKeys]

\* a locals record that keeps the totals of the call before
CallLocals_Carry(previous, dayKeys) ==
    [AggStart(dayKeys) EXCEPT !.positiveCents = previous.positiveCents,
                              !.negativeCents = previous.negativeCents]

\* const byDay = {}; let positiveCents = 0; let negativeCents = 0: the
\* locals of a call are declared in the function body, so a new call starts
\* from them whatever the call before left behind
CallLocals(previous, dayKeys) == AggStart(dayKeys)

\* the running call returns and a handler calls an aggregator again: with
\* the arguments of the first call, or (once) with those of another request.
\* Calls are synchronous, so calls of concurrent requests follow one another.
AggCall ==
    /\ AggDone
    /\ aggPhase # "again"
    /\ \E phase \in (IF aggPhase = "first" THEN {"between", "again"} ELSE {"again"}) :
       \E first \in {IF aggFirst = None THEN [args |-> AggArgs, result |-> aggAcc]
                     ELSE aggFirst[1]} :
       \E args \in {IF phase = "between" THEN OtherCall ELSE first.args} :
          /\ aggPhase' = phase
          /\ aggFirst' = Some(first)
          /\ aggPolicy' = args.policy
          /\ aggEntries' = args.entries
          /\ aggDayKeys' = args.dayKeys
          /\ aggIdx' = 0
          /\ aggAcc' = CallLocals(aggAcc, args.dayKeys)
    /\ UNCHANGED <<routeVars, popVars, pollVars>>

NextAgg == RentsStep \/ ChargesStep \/ AggCall

SpecAgg == InitAgg /\ [][NextAgg]_vars

----------------------------------------------------------------------------
(* Time-window arithmetic of the routes *)

\* luxon accepts an ISO date only when the month has that day
ValidDate(date) ==
    date[2] \in 1..12 /\ date[3] \in 1..DaysInMonth(date[1], date[2])

\* a month shift that keeps the day-of-month even when the month lacks it
MinusMonth_NoClamp(date) ==
    <<IF date[2] = 1 THEN date[1] - 1 ELSE date[1],
      IF date[2] = 1 THEN 12 ELSE date[2] - 1,
      date[3]>>

\* dt.minus({months: 1}): the same day-of-month of the previous month,
\* clamped by luxon to that month's last day
MinusMonth(date) ==
    LET y    == IF date[2] = 1 THEN date[1] - 1 ELSE date[1]
        m    == IF date[2] = 1 THEN 12 ELSE date[2] - 1
        last == DaysInMonth(y, m)
    IN  <<y, m, IF date[3] > last THEN last ELSE date[3]>>

\* dt.startOf('month')
StartOfMonth(date) == <<date[1], date[2], 1>>

\* parseDateToUnixSeconds(value, endOfDay) for a YYYY-MM-DD value:
\* Math.floor of startOf('day') / endOf('day') (23:59:59.999)
parseDateToUnixSeconds(value, endOfDay) ==
    ChicagoLocalToUnix(value, IF endOfDay THEN 86399 ELSE 0)

\* a key loop that stops one day early
DayKeysByCount_Short(start, dayCount) ==
    [i \in 1..(dayCount - 1) |-> PlusDays(start, i - 1)]

\* for (i = 0; i < dayCount; i++) keys.push(start.plus({days: i}))
DayKeysByCount(start, dayCount) ==
    [i \in 1..dayCount |-> PlusDays(start, i - 1)]

\* while (d <= toDt) { keys.push(d); d = d.plus({days: 1}) }: the loop runs
\* once for each day from d to toDt, and not at all when d is after toDt
DayKeysUntil(d, toDt) ==
    IF DateLeq(d, toDt)
    THEN [i \in 1..(DiffDays(toDt, d) + 1) |-> PlusDays(d, i - 1)]
    ELSE <<>>

\* the window computation of /rents/mtd and /rents/mtd/:station_id
MtdWindowOn(nowUnix, todayStart, prevMonthSameDay) ==
    LET monthStart       == StartOfMonth(todayStart)
        prevMonthStart   == MinusMonth(StartOfMonth(todayStart))
    IN  [gte         |-> ChicagoLocalToUnix(monthStart, 0),
         lte         |-> nowUnix,
         gtePrev     |-> ChicagoLocalToUnix(prevMonthStart, 0),
         ltePrev     |-> ChicagoLocalToUnix(prevMonthSameDay, 86399),
         dayKeys     |-> DayKeysByCount(monthStart,
                                        DiffDays(todayStart, monthStart) + 1),
         prevDayKeys |-> DayKeysByCount(prevMonthStart,
                                        DiffDays(prevMonthSameDay, prevMonthStart) + 1),
         first       |-> monthStart,
         last        |-> todayStart]

MtdWindow(nowUnix) ==
    Only({ MtdWindowOn(nowUnix, t[1], t[2]) :
           t \in { <<d, MinusMonth(d)>> :
                      d \in {chicagoDateStringFromUnix(nowUnix)} } })

\* a comparison window of the primary window's length, starting one month back
RangeWindowOn_SameLength(fromParam, toParam, prevFromDt, prevToDt) ==
        [gte         |-> parseDateToUnixSeconds(fromParam, FALSE),
         lte         |-> parseDateToUnixSeconds(toParam, TRUE),
         gtePrev     |-> parseDateToUnixSeconds(prevFromDt, FALSE),
         ltePrev     |-> parseDateToUnixSeconds(
                             PlusDays(prevFromDt, DiffDays(toParam, fromParam)), TRUE),
         dayKeys     |-> DayKeysUntil(fromParam, toParam),
         prevDayKeys |-> DayKeysUntil(prevFromDt,
                             PlusDays(prevFromDt, DiffDays(toParam, fromParam))),
         first       |-> fromParam,
         last        |-> toParam]

\* the window computation of /rents/range and /rents/from (valid dates)
RangeWindowOn(fromParam, toParam, prevFromDt, prevToDt) ==
        [gte         |-> parseDateToUnixSeconds(fromParam, FALSE),
         lte         |-> parseDateToUnixSeconds(toParam, TRUE),
         gtePrev     |-> parseDateToUnixSeconds(prevFromDt, FALSE),
         ltePrev     |-> parseDateToUnixSeconds(prevToDt, TRUE),
         dayKeys     |-> DayKeysUntil(fromParam, toParam),
         prevDayKeys |-> DayKeysUntil(prevFromDt, prevToDt),
         first       |-> fromParam,
         last        |-> toParam]

RangeWindow(fromParam, toParam) ==
    Only({ RangeWindowOn(p[1], p[2], p[3], p[4]) :
           p \in { <<fromParam, toParam,
                     MinusMonth(fromParam), MinusMonth(toParam)>> } })

\* the window of the request being served
WindowOf(r, nowUnix) ==
    IF r.route \in {"mtd", "mtd_station"} THEN MtdWindow(nowUnix)
    ELSE IF r.route = "range" THEN RangeWindow(r.from[1], r.to[1])
    ELSE Only({ RangeWindow(r.from[1], toParam) :
                toParam \in {chicagoDateStringFromUnix(nowUnix)} })

----------------------------------------------------------------------------
(* Report formatting *)

\* '$' + (netCents / 100).toFixed(0): toFixed prints the sign of a negative
\* number and rounds the magnitude to the nearest integer, halves upwards
MoneyOf(netCents) ==
    MoneyStr(netCents < 0,
             ((IF netCents < 0 THEN -netCents ELSE netCents) + 50) \div 100)

\* the dayKeys.map callback of the mtd / range / from routes
DataRow(byDay, byDayPrev, key) ==
    LET prevKey == MinusMonth(key)
        hasPrev == prevKey \in DOMAIN byDayPrev
    IN  [date   |-> byDay[key].date,
         rents  |-> byDay[key].rents,
         money  |-> MoneyOf(byDay[key].netCents),
         prents |-> IF hasPrev THEN byDayPrev[prevKey].rents ELSE 0,
         pmoney |-> IF hasPrev THEN MoneyOf(byDayPrev[prevKey].netCents)
                    ELSE MoneyStr(FALSE, 0)]

\* the dayKeys.map callback of /rents/recent
RecentRow(byDay, key) ==
    [date  |-> byDay[key].date,
     rents |-> byDay[key].rents,
     money |-> MoneyOf(byDay[key].netCents)]

RECURSIVE SortedKeys(_)
\* Object.keys(byDay).sort()
SortedKeys(S) ==
    IF S = {} THEN <<>>
    ELSE Only({ <<m>> \o Only({SortedKeys(R) : R \in {S \ {m}}}) :
                m \in {x \in S : \A y \in S : DateLeq(x, y)} })

ErrorResp(status) == [NoResp EXCEPT !.status = status, !.kind = "error"]

\* the station route returning the refund magnitudes as they were summed
ReportResp_NoNegate(w, cur, prev, negate) ==
    [status    |-> 200,
     success   |-> TRUE,
     kind      |-> "report",
     data      |-> [i \in 1..Len(w.dayKeys) |->
                      DataRow(cur.byDay, prev.byDay, w.dayKeys[i])],
     positive  |-> cur.positiveCents,
     negative  |-> cur.negativeCents,
     ppositive |-> prev.positiveCents,
     pnegative |-> prev.negativeCents,
     first     |-> formatDateLabel(w.first),
     last      |-> formatDateLabel(w.last),
     has_more  |-> FALSE,
     station_id  |-> None,
     station_ids |-> None]

\* res.json({success: true, ...}) of the windowed routes; money totals are
\* kept in hundredths of a dollar
ReportResp(w, cur, prev, negate) ==
    [status    |-> 200,
     success   |-> TRUE,
     kind      |-> "report",
     data      |-> [i \in 1..Len(w.dayKeys) |->
                      DataRow(cur.byDay, prev.byDay, w.dayKeys[i])],
     positive  |-> cur.positiveCents,
     negative  |-> IF negate THEN -cur.negativeCents ELSE cur.negativeCents,
     ppositive |-> prev.positiveCents,
     pnegative |-> IF negate THEN -prev.negativeCents ELSE prev.negativeCents,
     first     |-> formatDateLabel(w.first),
     last      |-> formatDateLabel(w.last),
     has_more  |-> FALSE,
     station_id  |-> None,
     station_ids |-> None]

----------------------------------------------------------------------------
(* The upstream ledger source and the station directory *)

\* limit: 100 of the list calls of the two fetch loops
PageLimit == 100

Min(a, b) == IF a < b THEN a ELSE b

RECURSIVE Descending(_)
\* the numbers of S, largest first
Descending(S) ==
    IF S = {} THEN <<>>
    ELSE Only({ <<m>> \o Only({Descending(R) : R \in {S \ {m}}}) :
                m \in {x \in S : \A y \in S : y <= x} })

\* an entry as listed: its id is its position in the ledger
WithId(e, i) == [x \in DOMAIN e \cup {"id"} |-> IF x = "id" THEN i ELSE e[x]]

\* stripe.<resource>.list(params): newest first, filtered by created and
\* customer, after the cursor, at most min(limit, PageMax) entries
ListPage(ledger, params) ==
    Only({ [data     |-> [j \in 1..Min(Min(params.limit, PageMax), Len(desc)) |->
                             WithId(ledger[desc[j]], desc[j])],
            has_more |-> Len(desc) > Min(params.limit, PageMax)] :
           desc \in { Descending(
               {i \in 1..Len(ledger) :
                   /\ params.created # None =>
                         /\ ledger[i].created >= params.created[1][1]
                         /\ ledger[i].created <= params.created[1][2]
                   /\ params.customer # None =>
                         ledger[i].customer = params.customer[1]
                   /\ params.starting_after # None =>
                         i < params.starting_after[1]}) } })

\* the locals of a fetch loop when its first list call has been issued:
\* the async function runs up to its first await as soon as it is called
StartFetch(gteUnix, lteUnix, customerId) ==
    [gte |-> gteUnix, lte |-> lteUnix, customer |-> customerId, all |-> <<>>,
     startingAfter |-> None, done |-> FALSE, log |-> <<>>, outstanding |-> 1]

\* the ids of a page
IdsOf(data) == [j \in 1..Len(data) |-> data[j].id]

\* a loop that takes its cursor from the first entry of the page
FetchIteration_FirstIdCursor(f, ledger) ==
    Only({ [f EXCEPT !.all = @ \o batch.data,
                     !.startingAfter =
                         IF batch.has_more THEN Some(batch.data[1].id) ELSE None,
                     !.done = ~batch.has_more,
                     !.log = Append(@, [cursor   |-> f.startingAfter,
                                        ids      |-> IdsOf(batch.data),
                                        has_more |-> batch.has_more]),
                     !.outstanding = IF batch.has_more THEN 1 ELSE 0] :
           batch \in { ListPage(ledger,
                                 [limit |-> PageLimit,
                                  created |-> Some(<<f.gte, f.lte>>),
                                  customer |-> f.customer,
                                  starting_after |-> f.startingAfter]) } })

\* one iteration of the do-while loop of fetchAllBalanceTransactionsInRange
\* and of fetchAllChargesInRange (the same loop; customer is None for the
\* former), from the answer to its list call to the next list call or the
\* return: the page is appended, the cursor is the id of its last entry when
\* has_more, and the loop goes on exactly when there is a cursor
FetchIteration(f, ledger) ==
    Only({ [f EXCEPT !.all = @ \o batch.data,
                     !.startingAfter =
                         IF batch.has_more
                         THEN Some(batch.data[Len(batch.data)].id) ELSE None,
                     !.done = ~batch.has_more,
                     !.log = Append(@, [cursor   |-> f.startingAfter,
                                        ids      |-> IdsOf(batch.data),
                                        has_more |-> batch.has_more]),
                     !.outstanding = IF batch.has_more THEN 1 ELSE 0] :
           batch \in { ListPage(ledger,
                                 [limit |-> PageLimit,
                                  created |-> Some(<<f.gte, f.lte>>),
                                  customer |-> f.customer,
                                  starting_after |-> f.startingAfter]) } })

\* rejections of an upstream call: without a statusCode (the connection
\* failed) or with the status the upstream answered
UpstreamErrors == {None, Some(429)}

\* a catch block that answers with an empty successful report
FailureResp_Zeroed(statusCode) ==
    [NoResp EXCEPT !.status = 200, !.success = TRUE, !.kind = "report"]

\* catch (error): res.status(error.statusCode || 500).json({success: false,
\* error: ...})
FailureResp(statusCode) ==
    ErrorResp(IF statusCode = None \/ statusCode = Some(0) THEN 500
              ELSE statusCode[1])

\* a finally block that keeps the client
Finally_Leak(i) == i

\* finally { if (client) client.release(); }
Finally(i) == IF i.connects > 0 THEN [i EXCEPT !.releases = @ + 1] ELSE i

\* behaviours of the station directory: it answers, pool.connect() rejects,
\* client.query() rejects
DbOutcomes == {"ok", "connect_fails", "query_fails"}

\* rows of SELECT id, title, stripe_id FROM stations: id -> stripe_id
StationRows ==
    [id \in {"s1", "s2", "s3", "s4"} |->
        IF id = "s1" THEN Some("cus_1")
        ELSE IF id = "s4" THEN Some("cus_2")
        ELSE IF id = "s2" THEN None ELSE Some("  ")]

\* String.prototype.trim on the strings of the model
Trim(str) ==
    IF str \in {" ", "  "} THEN "" ELSE IF str = " s1 " THEN "s1" ELSE str

----------------------------------------------------------------------------
(* Inputs of the route specification *)

NowSet ==
    { ChicagoLocalToUnix(<<2026, 3, 31>>, 18 * 3600),
      ChicagoLocalToUnix(<<2026, 5, 31>>, 18 * 3600),
      ChicagoLocalToUnix(<<2026, 1, 2>>, 18 * 3600) }

TxnEntries ==
    { Bt(<<2026, 2, 28>>, Some("charge"), Some(300)),
      Bt(<<2026, 3, 28>>, Some("refund"), Some(-150)),
      Bt(<<2026, 3, 29>>, Some("payout"), Some(-300)),
      Bt(<<2026, 3, 30>>, Some("stripe_fee"), Some(-9)),
      Bt(<<2026, 3, 31>>, Some("charge"), Some(550)),
      Bt(<<2026, 4, 30>>, Some("charge"), Some(500)) }

Cus(ch, customer) ==
    [x \in DOMAIN ch \cup {"customer"} |->
        IF x = "customer" THEN customer ELSE ch[x]]

StationCharges ==
    { Cus(Ch(<<2026, 2, 28>>, Some(500), Some(500), Some(100)), "cus_1"),
      Cus(Ch(<<2026, 3, 30>>, Some(0), Some(300), Some(300)), "cus_1"),
      Cus(Ch(<<2026, 3, 31>>, Some(300), Some(300), Some(0)), "cus_2") }

\* ledgers are listed by creation time: oldest first here
Chronological(ledger) ==
    \A i \in 1..Len(ledger) - 1 : ledger[i].created <= ledger[i + 1].created

\* req.params.station_id; "s1.s4" is a dot-separated list of two stations
StationIds == {"s1", " s1 ", "s2", "s3", "s4", "s9", " ", "s1.s4"}

\* req.query.from / req.query.to: absent, or a YYYY-MM-DD string
\* ("2026-02-30" is a string luxon rejects)
RangeParams ==
    { <<None, Some(<<2026, 3, 31>>)>>,
      <<Some(<<2026, 3, 1>>), None>>,
      <<Some(<<2026, 2, 30>>), Some(<<2026, 3, 31>>)>>,
      <<Some(<<2026, 3, 31>>), Some(<<2026, 3, 30>>)>>,
      <<Some(<<2026, 3, 29>>), Some(<<2026, 3, 31>>)>>,
      <<Some(<<2026, 3, 1>>), Some(<<2026, 3, 31>>)>>,
      <<Some(<<2026, 2, 15>>), Some(<<2026, 3, 1>>)>>,
      <<Some(<<2026, 3, 1>>), Some(<<2026, 3, 15>>)>> }

FromParams ==
    { None, Some(<<2026, 2, 30>>), Some(<<2026, 3, 29>>), Some(<<2026, 6, 15>>),
      Some(<<2026, 1, 1>>) }

\* req.query.limit: absent, or the raw query string
LimitParams ==
    { None, Some("abc"), Some("500"), Some("2"), Some("2abc"), Some("1"),
      Some("0"), Some("-5") }

\* query strings of /stripe/charges and /stripe/balance-transactions:
\* limit, from ("" and "mtd" through special) and to
StripeListParams ==
    { [limit |-> l, special |-> f[1], from |-> f[2], to |-> t] :
        l \in {None, Some("500"), Some("2"), Some("-5")},
        f \in { <<"none", None>>, <<"empty", None>>, <<"mtd", None>>,
                <<"none", Some(<<2026, 3, 29>>)>> },
        t \in {None, Some(<<2026, 3, 30>>)} }

----------------------------------------------------------------------------
(* The report routes as a state machine *)

Init ==
    /\ aggPolicy = "none"
    /\ aggEntries = <<>>
    /\ aggDayKeys = NoDayKeys
    /\ aggIdx = 0
    /\ aggAcc = AggStart(NoDayKeys)
    /\ aggPhase = "first"
    /\ aggFirst = None
    /\ now \in NowSet
    /\ stripe \in BOOLEAN
    /\ txns \in {l \in BoundedSeq(TxnEntries, MaxLedger) : Chronological(l)}
    /\ charges \in {l \in BoundedSeq(StationCharges, MaxLedger - Len(txns)) :
                      Chronological(l)}
    \* without a client no route reaches the upstream: one ledger suffices
    /\ ~stripe => (txns = <<>> /\ charges = <<>>)
    /\ req = NoReq
    /\ pc = "idle"
    /\ fetch = IdleFetch
    /\ resp = NoResp
    /\ io = NoIo
    /\ PopIdle
    /\ PollIdle

\* a handler answers without reaching the fetches; i is what it did outside
\* the process on the way
Answer(r, response, i) ==
    /\ req' = r
    /\ resp' = response
    /\ pc' = "done"
    /\ fetch' = IdleFetch
    /\ io' = i

\* a handler reaches Promise.all([fetch(gte, lte), fetch(gtePrev, ltePrev)]):
\* both fetches are called, each issues its first list call
BeginFetch(r, customerId, i) ==
    \E w \in {WindowOf(r, now)} :
        /\ req' = r
        /\ resp' = NoResp
        /\ pc' = "fetch"
        /\ fetch' = [x \in {"primary", "comparison"} |->
                        IF x = "primary" THEN StartFetch(w.gte, w.lte, customerId)
                        ELSE StartFetch(w.gtePrev, w.ltePrev, customerId)]
        /\ io' = [i EXCEPT !.list = @ + 2]

RouteRequest(route) == [NoReq EXCEPT !.route = route]

\* a guard that never sees the missing credential
NotConfigured_Never == FALSE

\* if (!stripe): the client is null when STRIPE_SECRET_KEY is not set
NotConfigured == ~stripe

\* GET /rents/mtd, up to Promise.all
GetRentsMtd ==
    /\ pc = "idle"
    /\ LET r == RouteRequest("mtd")
       IN  IF NotConfigured THEN Answer(r, ErrorResp(503), NoIo)
           ELSE BeginFetch(r, None, NoIo)
    /\ UNCHANGED <<now, stripe, txns, charges>>
    /\ UNCHANGED <<aggVars, popVars, pollVars>>

\* the database client is held and the station query has been answered
ClientHeld == [NoIo EXCEPT !.connects = 1, !.queries = 1]

\* GET /rents/mtd/:station_id, up to Promise.all; a return inside the try
\* block runs the finally block
GetRentsMtdStation ==
    /\ pc = "idle"
    /\ \E sid \in StationIds :
       \E db \in (IF NotConfigured \/ Trim(sid) = "" THEN {"ok"} ELSE DbOutcomes) :
          LET r  == [RouteRequest("mtd_station") EXCEPT !.station_id = sid,
                                                        !.db = db]
              id == Trim(sid)
          IN  IF NotConfigured THEN Answer(r, ErrorResp(503), NoIo)
              ELSE IF id = "" THEN Answer(r, ErrorResp(400), NoIo)
              ELSE IF db = "connect_fails"
                   THEN Answer(r, FailureResp(None),
                               Finally([NoIo EXCEPT !.error = Some(None)]))
              ELSE IF db = "query_fails"
                   THEN Answer(r, FailureResp(None),
                               Finally([ClientHeld EXCEPT !.error = Some(None)]))
              ELSE IF id \notin DOMAIN StationRows
                   THEN Answer(r, ErrorResp(404), Finally(ClientHeld))
              ELSE IF StationRows[id] = None \/ Trim(StationRows[id][1]) = ""
                   THEN Answer(r, ErrorResp(400), Finally(ClientHeld))
              ELSE BeginFetch(r, Some(Trim(StationRows[id][1])), ClientHeld)
    /\ UNCHANGED <<now, stripe, txns, charges>>
    /\ UNCHANGED <<aggVars, popVars, pollVars>>

\* a handler that fetches whatever the order of from and to
RangeHandler_NoOrderCheck(r, fromParam, toParam) ==
    IF ~ValidDate(fromParam) \/ ~ValidDate(toParam)
    THEN Answer(r, FailureResp(None), [NoIo EXCEPT !.error = Some(None)])
    ELSE BeginFetch(r, None, NoIo)

\* the part of /rents/range and /rents/from after the parameters are read;
\* toISODate() of an invalid date is null, and .slice of null throws
RangeHandler(r, fromParam, toParam) ==
    IF ~ValidDate(fromParam) \/ ~ValidDate(toParam)
    THEN Answer(r, FailureResp(None), [NoIo EXCEPT !.error = Some(None)])
    ELSE IF DateLess(toParam, fromParam) THEN Answer(r, ErrorResp(400), NoIo)
    ELSE BeginFetch(r, None, NoIo)

\* GET /rents/range?from&to, up to Promise.all
GetRentsRange ==
    /\ pc = "idle"
    /\ \E p \in RangeParams :
          LET r == [RouteRequest("range") EXCEPT !.from = p[1], !.to = p[2]]
          IN  IF NotConfigured THEN Answer(r, ErrorResp(503), NoIo)
              ELSE IF p[1] = None \/ p[2] = None THEN Answer(r, ErrorResp(400), NoIo)
              ELSE RangeHandler(r, p[1][1], p[2][1])
    /\ UNCHANGED <<now, stripe, txns, charges>>
    /\ UNCHANGED <<aggVars, popVars, pollVars>>

\* GET /rents/from?from, up to Promise.all
GetRentsFrom ==
    /\ pc = "idle"
    /\ \E f \in FromParams :
          LET r == [RouteRequest("from") EXCEPT !.from = f]
          IN  IF NotConfigured THEN Answer(r, ErrorResp(503), NoIo)
              ELSE IF f = None THEN Answer(r, ErrorResp(400), NoIo)
              ELSE RangeHandler(r, f[1], chicagoDateStringFromUnix(now))
    /\ UNCHANGED <<now, stripe, txns, charges>>
    /\ UNCHANGED <<aggVars, popVars, pollVars>>

\* the finally block of the handler being served (only the station route
\* has one)
Completed(i) == IF req.route = "mtd_station" THEN Finally(i) ELSE i

\* the list call of one of the two fetches is answered: its loop takes the
\* page and either issues the next list call or returns
FetchPage ==
    /\ pc = "fetch"
    /\ \E w \in {"primary", "comparison"} :
          /\ ~fetch[w].done
          /\ \E f \in {FetchIteration(fetch[w], IF req.route = "mtd_station"
                                               THEN charges ELSE txns)} :
                /\ fetch' = [fetch EXCEPT ![w] = f]
                /\ io' = [io EXCEPT !.list = @ + f.outstanding,
                                    !.order = Append(@, w)]
    /\ UNCHANGED <<now, stripe, txns, charges, req, pc, resp>>
    /\ UNCHANGED <<aggVars, popVars, pollVars>>

\* the list call of one of the two fetches is rejected: the fetch throws,
\* Promise.all rejects and the catch block answers; what the other fetch
\* still receives is dropped
FetchFail ==
    /\ pc = "fetch"
    /\ \E w \in {"primary", "comparison"} :
          /\ ~fetch[w].done
          /\ fetch' = [fetch EXCEPT ![w].outstanding = 0]
    /\ \E e \in UpstreamErrors :
          /\ resp' = FailureResp(e)
          /\ io' = Completed([io EXCEPT !.error = Some(e)])
    /\ pc' = "done"
    /\ UNCHANGED <<now, stripe, txns, charges, req>>
    /\ UNCHANGED <<aggVars, popVars, pollVars>>

\* a join that waits for one of the fetches only
JoinReady_Either(f) == f["primary"].done \/ f["comparison"].done

\* await Promise.all([...]) resumes when both fetches have returned
JoinReady(f) == f["primary"].done /\ f["comparison"].done

\* both fetches are complete: aggregate, align, format, answer
Respond ==
    /\ pc = "fetch"
    /\ JoinReady(fetch)
    /\ \E w \in {WindowOf(req, now)} :
       \E cur \in {IF req.route = "mtd_station"
                   THEN aggregateCharges(fetch["primary"].all, DayKeysOf(w.dayKeys))
                   ELSE aggregateRents(fetch["primary"].all, DayKeysOf(w.dayKeys))} :
       \E prev \in {IF req.route = "mtd_station"
                    THEN aggregateCharges(fetch["comparison"].all,
                                          DayKeysOf(w.prevDayKeys))
                    ELSE aggregateRents(fetch["comparison"].all,
                                        DayKeysOf(w.prevDayKeys))} :
          resp' = [ReportResp(w, cur, prev, req.route = "mtd_station")
                      EXCEPT !.station_id = IF req.route = "mtd_station"
                                            THEN Some(Trim(req.station_id))
                                            ELSE None]
    /\ pc' = "done"
    /\ io' = Completed(io)
    /\ UNCHANGED <<now, stripe, txns, charges, req, fetch>>
    /\ UNCHANGED <<aggVars, popVars, pollVars>>

\* parseInt(str, 10) on the strings of the model: the leading integer, or
\* NaN (None) when there is none; parseInt(undefined) is NaN
ParseInt10(param) ==
    IF param = None THEN None
    ELSE IF param[1] = "500" THEN Some(500)
    ELSE IF param[1] \in {"2", "2abc"} THEN Some(2)
    ELSE IF param[1] \in {"3", "3abc"} THEN Some(3)
    ELSE IF param[1] = "6" THEN Some(6)
    ELSE IF param[1] = "7" THEN Some(7)
    ELSE IF param[1] = "1" THEN Some(1)
    ELSE IF param[1] = "0" THEN Some(0)
    ELSE IF param[1] = "-5" THEN Some(-5)
    ELSE None

\* Math.min(parseInt(req.query.limit, 10) || fallback, 100): NaN and 0 are
\* falsy
LimitOr(limitParam, fallback) ==
    LET parsed == ParseInt10(limitParam)
    IN  Min(IF parsed = None \/ parsed = Some(0) THEN fallback ELSE parsed[1], 100)

\* Math.min(parseInt(req.query.limit, 10) || 10, 100) of /rents/recent
RecentLimit(limitParam) == LimitOr(limitParam, 10)

\* Math.min(parseInt(req.query.limit, 10) || 100, 100) of /stripe/*
StripeLimit(limitParam) == LimitOr(limitParam, 100)

\* a handler issues its single list call
BeginList(r, limit) ==
    /\ req' = r
    /\ resp' = NoResp
    /\ pc' = "list"
    /\ fetch' = IdleFetch
    /\ io' = [NoIo EXCEPT !.list = 1, !.limit = Some(limit)]

\* GET /rents/recent, up to the list call
GetRentsRecent ==
    /\ pc = "idle"
    /\ \E l \in LimitParams :
          LET r == [RouteRequest("recent") EXCEPT !.limit = l]
          IN  IF NotConfigured THEN Answer(r, ErrorResp(503), NoIo)
              ELSE BeginList(r, RecentLimit(l))
    /\ UNCHANGED <<now, stripe, txns, charges>>
    /\ UNCHANGED <<aggVars, popVars, pollVars>>

\* GET /stripe/charges and GET /stripe/balance-transactions, up to the list
\* call (the two handlers differ in the resource they list)
StripeListHandler(route) ==
    /\ pc = "idle"
    /\ \E p \in StripeListParams :
          LET r == [RouteRequest(route) EXCEPT !.limit = p.limit, !.from = p.from,
                                               !.to = p.to, !.special = p.special]
          IN  IF NotConfigured THEN Answer(r, ErrorResp(503), NoIo)
              ELSE BeginList(r, StripeLimit(p.limit))
    /\ UNCHANGED <<now, stripe, txns, charges>>
    /\ UNCHANGED <<aggVars, popVars, pollVars>>

GetStripeCharges == StripeListHandler("stripe_charges")

GetStripeBalanceTransactions == StripeListHandler("stripe_balance_transactions")

\* listParams.created of /stripe/*: set when from is given and not empty;
\* "mtd" is the start of the current month, a missing to is the end of today
StripeCreated(r, nowUnix) ==
    IF r.special = "empty" \/ (r.special = "none" /\ r.from = None) THEN None
    ELSE Some(<<IF r.special = "mtd"
                THEN ChicagoLocalToUnix(
                         StartOfMonth(chicagoDateStringFromUnix(nowUnix)), 0)
                ELSE parseDateToUnixSeconds(r.from[1], FALSE),
                IF r.to # None THEN parseDateToUnixSeconds(r.to[1], TRUE)
                ELSE parseDateToUnixSeconds(chicagoDateStringFromUnix(nowUnix),
                                            TRUE)>>)

\* the upstream rejects a list call whose limit is outside 1..100 with 400
LimitRejected(limit) == limit < 1 \/ limit > PageLimit

\* the single page of /rents/recent arrives (kept in fetch.primary.all, the
\* local balanceTransactions): aggregate and answer
RecentRespond ==
    /\ pc = "list"
    /\ req.route = "recent"
    /\ \E limit \in {io.limit[1]} :
       \E batch \in {ListPage(txns, [limit |-> limit, created |-> None,
                                     customer |-> None, starting_after |-> None])} :
       \E agg \in {aggregateRents(batch.data, NoDayKeys)} :
       \E keys \in {SortedKeys(DOMAIN agg.byDay)} :
           /\ resp' = IF LimitRejected(limit) THEN FailureResp(Some(400))
                      ELSE [NoResp EXCEPT
                              !.status = 200, !.success = TRUE, !.kind = "recent",
                              !.data = [i \in 1..Len(keys) |->
                                          RecentRow(agg.byDay, keys[i])],
                              !.positive = agg.positiveCents,
                              !.negative = agg.negativeCents]
           /\ fetch' = IF LimitRejected(limit) THEN fetch
                       ELSE [fetch EXCEPT !["primary"].all = batch.data]
           /\ io' = IF LimitRejected(limit)
                    THEN [io EXCEPT !.error = Some(Some(400))] ELSE io
    /\ pc' = "done"
    /\ UNCHANGED <<now, stripe, txns, charges, req>>
    /\ UNCHANGED <<aggVars, popVars, pollVars>>

\* the single page of /stripe/charges or /stripe/balance-transactions
\* arrives and is passed on
StripeListRespond ==
    /\ pc = "list"
    /\ req.route \in {"stripe_charges", "stripe_balance_transactions"}
    /\ \E limit \in {io.limit[1]} :
       \E batch \in {ListPage(IF req.route = "stripe_charges" THEN charges ELSE txns,
                              [limit |-> limit, created |-> StripeCreated(req, now),
                               customer |-> None, starting_after |-> None])} :
           /\ resp' = IF LimitRejected(limit) THEN FailureResp(Some(400))
                      ELSE [NoResp EXCEPT
                              !.status = 200, !.success = TRUE, !.kind = "list",
                              !.data = batch.data,
                              !.has_more = batch.has_more]
           /\ io' = IF LimitRejected(limit)
                    THEN [io EXCEPT !.error = Some(Some(400))] ELSE io
    /\ pc' = "done"
    /\ UNCHANGED <<now, stripe, txns, charges, req, fetch>>
    /\ UNCHANGED <<aggVars, popVars, pollVars>>

\* the single list call of /rents/recent or /stripe/* is rejected
ListFail ==
    /\ pc = "list"
    /\ \E e \in UpstreamErrors :
          /\ resp' = FailureResp(e)
          /\ io' = [io EXCEPT !.error = Some(e)]
    /\ pc' = "done"
    /\ UNCHANGED <<now, stripe, txns, charges, req, fetch>>
    /\ UNCHANGED <<aggVars, popVars, pollVars>>

----------------------------------------------------------------------------
(* The station routes of the map service (src/map_service_api.js) *)

\* the GET routes of the router in the order of their router.get calls
MapGetRoutes ==
    << [pattern |-> <<"stations">>, handler |-> "stations"],
       [pattern |-> <<"stations", ":id">>, handler |-> "stations_id"],
       [pattern |-> <<"stations", "export">>, handler |-> "stations_export"] >>

\* a route pattern matches a path segment by segment; a ":name" segment
\* matches any segment
Matches(pattern, path) ==
    /\ Len(pattern) = Len(path)
    /\ \A i \in 1..Len(pattern) :
          pattern[i] \in {":id", ":station_id", ":slot"} \/ pattern[i] = path[i]

\* the router hands a request to the first registered route that matches;
\* no handler of the map service calls next()
Dispatch(routes, path) ==
    LET hits == {i \in 1..Len(routes) : Matches(routes[i].pattern, path)}
    IN  IF hits = {} THEN None
        ELSE Some(routes[CHOOSE i \in hits : \A j \in hits : i <= j].handler)

\* paths of GET requests to the map service
MapPaths ==
    { <<"stations">>, <<"stations", "export">>, <<"stations", "s1">>,
      <<"stations", "s9">>, <<"stationz">> }

\* the handlers of GET /stations, /stations/:id and /stations/export: a
\* JSON list, the JSON of one station (404 without a row), a CSV download;
\* a rejected connect or query is answered with 500
MapHandler(handler, path, db) ==
    IF db # "ok" THEN FailureResp(None)
    ELSE IF handler = "stations"
    THEN [NoResp EXCEPT !.status = 200, !.success = TRUE, !.kind = "stations"]
    ELSE IF handler = "stations_export"
    THEN [NoResp EXCEPT !.status = 200, !.success = TRUE, !.kind = "csv"]
    ELSE IF path[2] \notin DOMAIN StationRows THEN ErrorResp(404)
    ELSE [NoResp EXCEPT !.status = 200, !.success = TRUE, !.kind = "station",
                        !.station_id = Some(path[2])]

\* a GET request to the map service, from dispatch to response
GetStations ==
    /\ pc = "idle"
    /\ \E path \in MapPaths :
       \E db \in DbOutcomes :
       \E h \in {Dispatch(MapGetRoutes, path)} :
          LET r == [RouteRequest(IF h = None THEN "unmatched" ELSE h[1])
                      EXCEPT !.path = path, !.db = db]
          IN  IF h = None THEN Answer(r, ErrorResp(404), NoIo)
              ELSE Answer(r, MapHandler(h[1], path, db), NoIo)
    /\ UNCHANGED <<now, stripe, txns, charges>>
    /\ UNCHANGED <<aggVars, popVars, pollVars>>

\* the response has been sent and the handler has returned
Finish ==
    /\ pc = "done"
    /\ pc' = "idle"
    /\ req' = NoReq
    /\ resp' = NoResp
    /\ fetch' = IdleFetch
    /\ io' = NoIo
    /\ UNCHANGED <<now, stripe, txns, charges>>
    /\ UNCHANGED <<aggVars, popVars, pollVars>>

Next ==
    \/ GetRentsMtd
    \/ GetRentsMtdStation
    \/ GetRentsRange
    \/ GetRentsFrom
    \/ GetRentsRecent
    \/ GetStripeCharges
    \/ GetStripeBalanceTransactions
    \/ FetchPage
    \/ FetchFail
    \/ Respond
    \/ RecentRespond
    \/ StripeListRespond
    \/ ListFail
    \/ GetStations
    \/ Finish

Spec == Init /\ [][Next]_vars

----------------------------------------------------------------------------
(* The device services: POST /pop/:station_id/all, POST                    *)
(* /pop/:station_id/:slot, GET /battery/:sticker_id with sendPopCommand /  *)
(* getOrderData and refreshToken, and the writers of the token table       *)

AggIdle ==
    /\ aggPolicy = "none"
    /\ aggEntries = <<>>
    /\ aggDayKeys = NoDayKeys
    /\ aggIdx = 0
    /\ aggAcc = AggStart(NoDayKeys)
    /\ aggPhase = "first"
    /\ aggFirst = None

RouteIdle ==
    /\ now = 0
    /\ stripe = TRUE
    /\ txns = <<>>
    /\ charges = <<>>
    /\ req = NoReq
    /\ pc = "idle"
    /\ fetch = IdleFetch
    /\ resp = NoResp
    /\ io = NoIo

\* what runs beside the pop request of process 1: another pop request, a
\* battery lookup of the scan service, the token route, or the supplier's
\* updateTokenInDatabase
Partners == {"pop", "order", "token_route", "updater"}

\* the POST routes of the user service in the order of their router.post calls
PopPostRoutes ==
    << [pattern |-> <<"pop", ":station_id", "all">>, handler |-> "pop_all"],
       [pattern |-> <<"pop", ":station_id", ":slot">>, handler |-> "pop_slot"] >>

\* paths of POST requests to the pop routes
PopPaths ==
    { <<"pop", "s1", seg>> : seg \in {"all", "3", "6", "0", "7", "abc", "3abc"} }

\* the path of the second pop request
PartnerPopPath == <<"pop", "s1", "3">>

\* the rows of the token table when the services start
TokenTables == { <<>>, <<"seed">> }

\* the module whose tokenRefreshPromise a request uses
ModuleOf(p) == IF p = 2 /\ partner = "order" THEN "scan" ELSE "user"

\* how a command request to the device API ends: response.ok with or
\* without borrowstatus in the body, response not ok, fetch rejecting with
\* a network error, anything else thrown (response.json() rejecting)
CmdOutcomes ==
    {"borrowed", "not_borrowed", "http_error", "network_error", "other_error"}

InitPop ==
    /\ AggIdle
    /\ RouteIdle
    /\ PollIdle
    /\ partner \in Partners
    /\ proc = [p \in Procs |-> NoProc]
    /\ tokenRefreshPromise = [m \in Modules |-> 0]
    /\ refresh = [p \in Procs |-> NoRefresh]
    /\ timers = {}
    /\ tokenRows \in TokenTables

\* const slotNum = parseInt(slot);
\* if (isNaN(slotNum) || slotNum < 1 || slotNum > 6) return 400
SlotRejected(slotNum) == slotNum = None \/ slotNum[1] < 1 \/ slotNum[1] > 6

\* a POST /pop/... request arrives and runs up to getTokenFromDatabase()
PostPop ==
    /\ \E p \in Procs :
       \E path \in (IF p = 1 THEN PopPaths
                    ELSE IF partner = "pop" THEN {PartnerPopPath} ELSE {}) :
       \E h \in {Dispatch(PopPostRoutes, path)} :
       \E slotNum \in {ParseInt10(Some(path[3]))} :
          /\ proc[p].pc = "idle"
          /\ proc' = [proc EXCEPT ![p] =
                IF h[1] = "pop_all"
                THEN [NoProc EXCEPT !.route = "pop_all", !.path = path,
                                    !.pc = "token", !.slot = 1]
                ELSE IF SlotRejected(slotNum)
                THEN [NoProc EXCEPT !.route = "pop_slot", !.path = path,
                                    !.pc = "done", !.status = 400]
                ELSE [NoProc EXCEPT !.route = "pop_slot", !.path = path,
                                    !.pc = "token", !.slot = slotNum[1]]]
    /\ UNCHANGED <<partner, tokenRefreshPromise, refresh, timers, tokenRows>>
    /\ UNCHANGED <<aggVars, routeVars, pollVars>>

\* a GET /battery/:sticker_id request arrives at the scan service
GetBattery ==
    /\ partner = "order"
    /\ proc[2].pc = "idle"
    /\ proc' = [proc EXCEPT ![2] = [NoProc EXCEPT !.route = "order", !.pc = "token"]]
    /\ UNCHANGED <<partner, tokenRefreshPromise, refresh, timers, tokenRows>>
    /\ UNCHANGED <<aggVars, routeVars, pollVars>>

\* the command request of sendPopCommand / getOrderData goes out
SendCommand(r, slot, isRetry) ==
    [r EXCEPT !.pc = "send", !.slot = slot, !.isRetry = isRetry,
              !.cmds = IF isRetry THEN @ + 1 ELSE 1,
              !.refreshes = IF isRetry THEN @ ELSE 0,
              !.lastCmd = slot]

\* getTokenFromDatabase() returns (null without a row or on a database
\* error) and the handler goes on: 503 without a token, 404 without the
\* battery row, otherwise the first sendPopCommand / getOrderData call
TokenRead ==
    /\ \E p \in Procs :
       \E dbOk \in BOOLEAN :
       \E found \in (IF proc[p].route = "order" THEN BOOLEAN ELSE {TRUE}) :
          /\ proc[p].pc = "token"
          /\ proc' = [proc EXCEPT ![p] =
                IF ~dbOk \/ tokenRows = <<>>
                THEN [@ EXCEPT !.pc = "done", !.status = 503]
                ELSE IF ~found THEN [@ EXCEPT !.pc = "done", !.status = 404]
                ELSE SendCommand(@, @.slot, FALSE)]
    /\ UNCHANGED <<partner, tokenRefreshPromise, refresh, timers, tokenRows>>
    /\ UNCHANGED <<aggVars, routeVars, pollVars>>

\* for (let slot = 1; slot <= 6; slot++)
NextSlot(slot) == slot + 1

\* sendPopCommand / getOrderData has returned `result` ("borrowed",
\* "not_borrowed" or "null") to its handler: the single-slot route answers,
\* the all-slots route pushes and goes on with the next slot or answers
Returned(r, result) ==
    IF r.route = "pop_slot"
    THEN [r EXCEPT !.pc = "done",
                   !.status = IF result = "borrowed" THEN 200 ELSE 500,
                   !.count = IF result = "borrowed" THEN 1 ELSE 0]
    ELSE IF r.route = "order"
    THEN [r EXCEPT !.pc = "done", !.status = 200]
    ELSE LET pushed == r.pushed + (IF result = "borrowed" THEN 1 ELSE 0)
         IN  IF NextSlot(r.slot) <= 6
             THEN SendCommand([r EXCEPT !.pushed = pushed, !.awaiting = 0,
                                        !.inflightAtCall = 0],
                              NextSlot(r.slot), FALSE)
             ELSE [r EXCEPT !.pushed = pushed, !.pc = "done", !.status = 200,
                            !.count = pushed]

\* the requests of a module whose refresh request is in flight
InFlight(m) == {q \in Procs : ModuleOf(q) = m /\ refresh[q].state = "pending"}

\* a guard that is never seen as set
GuardSet_Never(guard) == FALSE

\* if (tokenRefreshPromise)
GuardSet(guard) == guard # 0

\* a retry that is allowed after a retry
MayRetry_Always(isRetry) == TRUE

\* !isRetry of `if (!response.ok && !isRetry)` and of the catch block
MayRetry(isRetry) == ~isRetry

\* the command request is answered; a failed first request calls
\* refreshToken(), which awaits the promise of the guard or creates one and
\* sends the request to the token endpoint
CommandAnswered ==
    \E p \in Procs :
    \E o \in CmdOutcomes :
    \E r \in {[proc[p] EXCEPT !.okSlots = @ + (IF o = "borrowed" THEN 1 ELSE 0)]} :
       /\ proc[p].pc = "send"
       /\ IF o \in {"http_error", "network_error"} /\ MayRetry(r.isRetry)
          THEN \E m \in {ModuleOf(p)} :
               \E owner \in {IF GuardSet(tokenRefreshPromise[m])
                             THEN tokenRefreshPromise[m] ELSE p} :
                  /\ proc' = [proc EXCEPT ![p] =
                        [r EXCEPT !.pc = "await_refresh",
                                  !.refreshes = @ + 1,
                                  !.awaiting = owner,
                                  !.inflightAtCall =
                                      IF InFlight(m) = {} THEN 0
                                      ELSE CHOOSE q \in InFlight(m) : TRUE]]
                  /\ tokenRefreshPromise' =
                        [tokenRefreshPromise EXCEPT ![m] = owner]
                  /\ refresh' = IF owner = p /\ ~GuardSet(tokenRefreshPromise[m])
                                THEN [refresh EXCEPT ![p] =
                                        [state |-> "pending", token |-> None]]
                                ELSE refresh
          ELSE /\ proc' = [proc EXCEPT ![p] =
                     Returned(r, IF o \in {"borrowed", "not_borrowed"} THEN o
                                 ELSE "null")]
               /\ UNCHANGED <<tokenRefreshPromise, refresh>>
       /\ UNCHANGED <<partner, timers, tokenRows>>
       /\ UNCHANGED <<aggVars, routeVars, pollVars>>

\* finally { setTimeout(() => { tokenRefreshPromise = null; }, 2000); }
ResetScheduled(pending, q) == pending \cup {q}

\* the request to the token endpoint is answered: the promise settles with
\* the new token, or with null (not ok, no token in the body, fetch threw),
\* and the reset of the guard is scheduled
RefreshAnswered ==
    /\ \E q \in Procs :
       \E token \in {Some("fresh"), None} :
          /\ refresh[q].state = "pending"
          /\ refresh' = [refresh EXCEPT ![q] = [state |-> "settled", token |-> token]]
          /\ timers' = ResetScheduled(timers, q)
    /\ UNCHANGED <<partner, proc, tokenRefreshPromise, tokenRows>>
    /\ UNCHANGED <<aggVars, routeVars, pollVars>>

\* await refreshToken() resumes with the settled value: without a token the
\* call returns null, with one the token table is updated first
RefreshResume ==
    /\ \E p \in Procs :
          /\ proc[p].pc = "await_refresh"
          /\ refresh[proc[p].awaiting].state = "settled"
          /\ proc' = [proc EXCEPT ![p] =
                IF refresh[proc[p].awaiting].token = None
                THEN Returned(@, "null")
                ELSE [@ EXCEPT !.pc = "delete"]]
    /\ UNCHANGED <<partner, tokenRefreshPromise, refresh, timers, tokenRows>>
    /\ UNCHANGED <<aggVars, routeVars, pollVars>>

\* the 2000 ms timer of a settled refresh fires; the continuations of the
\* promise are microtasks and have run by then
GuardReset ==
    /\ \E q \in timers :
          /\ \A p \in Procs : ~(proc[p].pc = "await_refresh" /\ proc[p].awaiting = q)
          /\ tokenRefreshPromise' = [tokenRefreshPromise EXCEPT ![ModuleOf(q)] = 0]
          /\ timers' = timers \ {q}
          /\ refresh' = [refresh EXCEPT ![q] =
                IF @.state = "settled" THEN NoRefresh ELSE @]
    /\ UNCHANGED <<partner, proc, tokenRows>>
    /\ UNCHANGED <<aggVars, routeVars, pollVars>>

\* the GET /token route has logged in and saves the token it captured
GetToken ==
    /\ partner = "token_route"
    /\ proc[2].pc = "idle"
    /\ proc' = [proc EXCEPT ![2] = [NoProc EXCEPT !.route = "token_route",
                                                  !.pc = "delete"]]
    /\ UNCHANGED <<partner, tokenRefreshPromise, refresh, timers, tokenRows>>
    /\ UNCHANGED <<aggVars, routeVars, pollVars>>

\* what follows the token update of a request: the retry of the command,
\* or the response of the token route
AfterSave(r) ==
    IF r.route = "token_route" THEN [r EXCEPT !.pc = "done", !.status = 200]
    ELSE SendCommand(r, r.slot, TRUE)

\* dbClient = await pool.connect(); await dbClient.query('DELETE FROM token');
\* a rejection is caught and logged, and the request goes on
SaveDelete ==
    /\ \E p \in Procs :
       \E dbOk \in BOOLEAN :
          /\ proc[p].pc = "delete"
          /\ proc' = [proc EXCEPT ![p] =
                IF dbOk THEN [@ EXCEPT !.pc = "insert"] ELSE AfterSave(@)]
          /\ tokenRows' = IF dbOk THEN <<>> ELSE tokenRows
    /\ UNCHANGED <<partner, tokenRefreshPromise, refresh, timers>>
    /\ UNCHANGED <<aggVars, routeVars, pollVars>>

\* await dbClient.query('INSERT INTO token (value) VALUES ($1)', [newToken])
SaveInsert ==
    /\ \E p \in Procs :
       \E dbOk \in BOOLEAN :
          /\ proc[p].pc = "insert"
          /\ proc' = [proc EXCEPT ![p] = AfterSave(@)]
          /\ tokenRows' = IF dbOk THEN Append(tokenRows, "fresh") ELSE tokenRows
    /\ UNCHANGED <<partner, tokenRefreshPromise, refresh, timers>>
    /\ UNCHANGED <<aggVars, routeVars, pollVars>>

\* updateTokenInDatabase(newToken) of the supplier service starts and reads
\* SELECT COUNT(*) FROM token
UpdaterCount ==
    /\ partner = "updater"
    /\ proc[2].pc = "idle"
    /\ \E dbOk \in BOOLEAN :
          proc' = [proc EXCEPT ![2] =
                IF dbOk THEN [NoProc EXCEPT !.route = "updater", !.pc = "write",
                                            !.seen = Len(tokenRows)]
                ELSE [NoProc EXCEPT !.route = "updater", !.pc = "done"]]
    /\ UNCHANGED <<partner, tokenRefreshPromise, refresh, timers, tokenRows>>
    /\ UNCHANGED <<aggVars, routeVars, pollVars>>

\* if (rowCount > 0) UPDATE token SET value = $1; else INSERT INTO token ...
UpdaterWrite ==
    /\ proc[2].pc = "write"
    /\ proc' = [proc EXCEPT ![2] = [@ EXCEPT !.pc = "done", !.status = 200]]
    /\ tokenRows' = IF proc[2].seen > 0
                    THEN [i \in 1..Len(tokenRows) |-> "fresh"]
                    ELSE Append(tokenRows, "fresh")
    /\ UNCHANGED <<partner, tokenRefreshPromise, refresh, timers>>
    /\ UNCHANGED <<aggVars, routeVars, pollVars>>

\* the response has been sent
PopFinish ==
    /\ \E p \in Procs :
          /\ proc[p].pc = "done"
          /\ proc' = [proc EXCEPT ![p] = NoProc]
    /\ UNCHANGED <<partner, tokenRefreshPromise, refresh, timers, tokenRows>>
    /\ UNCHANGED <<aggVars, routeVars, pollVars>>

NextPop ==
    \/ PostPop
    \/ GetBattery
    \/ TokenRead
    \/ CommandAnswered
    \/ RefreshAnswered
    \/ RefreshResume
    \/ GuardReset
    \/ GetToken
    \/ SaveDelete
    \/ SaveInsert
    \/ UpdaterCount
    \/ UpdaterWrite
    \/ PopFinish

SpecPop == InitPop /\ [][NextPop]_vars

\* request p has work left: its handler has started and not answered, or
\* the token request of the refresh it created is in flight
Pending(p) == proc[p].pc \notin {"idle", "done"} \/ refresh[p].state = "pending"

\* every awaited call settles: a handler that can go on does go on, and the
\* token request a refresh sent is answered
SpecPopFair ==
    /\ SpecPop
    /\ \A p \in Procs : WF_<<proc[p], refresh[p]>>(Pending(p) /\ NextPop)

----------------------------------------------------------------------------
(* The Telegram command poller: startTelegramCommandPolling / pollForMessages *)

\* how a getUpdates call ends: data.ok with a result list, !response.ok,
\* !data.ok, or fetch / response.json() rejecting
PollOutcomes == {"ok", "http_error", "api_error", "throws"}

\* after startTelegramCommandPolling(): lastUpdateId = 0 and the timer of
\* setTimeout(pollForMessages, 10000) pending
InitPoll ==
    /\ AggIdle
    /\ RouteIdle
    /\ PopIdle
    /\ polling = [NoPolling EXCEPT !.scheduled = 1]
    /\ telegram = NoTelegram

\* a message reaches the bot: Telegram stores an update under the next id
UpdateArrives ==
    /\ telegram.next <= MaxUpdate
    /\ telegram' = [telegram EXCEPT !.next = @ + 1,
                                    !.unconfirmed = @ \cup {telegram.next}]
    /\ UNCHANGED polling
    /\ UNCHANGED <<aggVars, routeVars, popVars>>

\* Telegram drops a stored update that was not fetched within 24 hours
UpdateExpires ==
    /\ \E u \in telegram.unconfirmed :
          telegram' = [telegram EXCEPT !.unconfirmed = @ \ {u}]
    /\ UNCHANGED polling
    /\ UNCHANGED <<aggVars, routeVars, popVars>>

\* the offset of the getUpdates url: lastUpdateId + 1 when lastUpdateId > 0,
\* no offset (0) otherwise
OffsetOf(lastUpdateId) == IF lastUpdateId > 0 THEN lastUpdateId + 1 ELSE 0

\* a timer fires: pollForMessages builds the url and awaits fetch(url)
PollStart ==
    /\ polling.scheduled > 0
    /\ polling' = [polling EXCEPT
                      !.scheduled = @ - 1,
                      !.requests = Append(@, OffsetOf(polling.lastUpdateId))]
    /\ UNCHANGED telegram
    /\ UNCHANGED <<aggVars, routeVars, popVars>>

\* what Telegram returns for an offset: the stored updates from the offset on
ResultFor(offset) == {u \in telegram.unconfirmed : u >= offset}

\* the updates of a result that the for loop reaches, in ascending id order,
\* when the handling of update failAt throws out of the loop (0 = none does)
Reached(result, failAt) == {u \in result : failAt = 0 \/ u <= failAt}

\* lastUpdateId = Math.max(lastUpdateId, update.update_id) over the updates
\* the loop reached
MaxUpdateId(lastUpdateId, reached) ==
    IF \E u \in reached : u > lastUpdateId
    THEN CHOOSE u \in reached : \A v \in reached : v <= u
    ELSE lastUpdateId

\* the error branches that never reach the bottom of pollForMessages
EarlyReturn_Never(outcome) == FALSE

\* setTimeout(pollForMessages, 5000); return;
EarlyReturn(outcome) == outcome \in {"http_error", "api_error"}

\* the timers one run of pollForMessages sets: the one of its error branch
\* and, unless it returned there, the one at its bottom
TimersSet(outcome) ==
    (IF outcome \in {"http_error", "api_error"} THEN 1 ELSE 0)
        + (IF EarlyReturn(outcome) THEN 0 ELSE 1)

\* fetch(url) settles and pollForMessages runs to its end
PollAnswered ==
    /\ polling.requests # <<>>
    /\ \E outcome \in PollOutcomes :
       \E offset \in {Head(polling.requests)} :
       \E result \in {IF outcome = "ok" THEN ResultFor(offset) ELSE {}} :
       \E failAt \in result \cup {0} :
       \E reached \in {Reached(result, failAt)} :
          /\ polling' = [polling EXCEPT
                !.requests = Tail(@),
                !.scheduled = @ + TimersSet(outcome),
                !.lastUpdateId = MaxUpdateId(@, reached)]
          /\ telegram' = [telegram EXCEPT
                !.unconfirmed = IF outcome = "ok"
                                THEN {u \in @ : u >= offset} ELSE @,
                !.handled = [u \in 1..MaxUpdate |->
                                IF u \in reached THEN @[u] + 1 ELSE @[u]]]
    /\ UNCHANGED <<aggVars, routeVars, popVars>>

NextPoll ==
    \/ UpdateArrives
    \/ UpdateExpires
    \/ PollStart
    \/ PollAnswered

\* timers fire and every getUpdates call settles (timeout=1 on the url)
SpecPoll ==
    /\ InitPoll
    /\ [][NextPoll]_vars
    /\ WF_vars(PollStart)
    /\ WF_vars(PollAnswered)

----------------------------------------------------------------------------
(* Reference sums, written from the stated properties *)

Recognised(bt) == bt.type # None /\ bt.type[1] \in REVENUE_TYPES

NetOf(bt) == IF bt.net = None THEN 0 ELSE bt.net[1]

RECURSIVE SumSeq(_, _)
\* the sum of the integer sequence s from index i on
SumSeq(s, i) == IF i > Len(s) THEN 0 ELSE s[i] + SumSeq(s, i + 1)

SumOf(s) == Only({SumSeq(v, 1) : v \in {s}})

RECURSIVE SumBuckets(_, _)
\* the sum of netCents over the buckets of byDay with keys in S
SumBuckets(byDay, S) ==
    IF S = {} THEN 0
    ELSE Only({ byDay[k].netCents + SumBuckets(byDay, S \ {k}) :
                k \in {CHOOSE x \in S : TRUE} })

PositivePart(bts) ==
    SumOf([i \in 1..Len(bts) |->
              IF Recognised(bts[i]) /\ NetOf(bts[i]) > 0 THEN NetOf(bts[i]) ELSE 0])

NegativePart(bts) ==
    SumOf([i \in 1..Len(bts) |->
              IF Recognised(bts[i]) /\ NetOf(bts[i]) < 0 THEN NetOf(bts[i]) ELSE 0])

DayNet(bts, key) ==
    SumOf([i \in 1..Len(bts) |->
              IF Recognised(bts[i]) /\ chicagoDateStringFromUnix(bts[i].created) = key
              THEN NetOf(bts[i]) ELSE 0])

DayRents(bts, key) ==
    Cardinality({i \in 1..Len(bts) :
                   /\ bts[i].type = Some("charge")
                   /\ NetOf(bts[i]) > 0
                   /\ chicagoDateStringFromUnix(bts[i].created) = key})

RentsDone == aggPolicy = "rents" /\ aggIdx = Len(aggEntries)

ChargesDone == aggPolicy = "charges" /\ aggIdx = Len(aggEntries)

KeySet(dayKeys) == {dayKeys.keys[i] : i \in 1..Len(dayKeys.keys)}

----------------------------------------------------------------------------
(* C1: aggregateRents returns positiveCents = the sum of net over the      *)
(* entries of a recognised type with net > 0 and negativeCents = the sum   *)
(* of net over the entries of a recognised type with net < 0; entries with *)
(* net 0 or missing, and entries of an unrecognised type, add to neither.  *)
C1_RentsTotals ==
    RentsDone =>
        /\ Cardinality(REVENUE_TYPES) = 9
        /\ aggAcc.positiveCents = PositivePart(aggEntries)
        /\ aggAcc.negativeCents = NegativePart(aggEntries)

\* a finished call whose list mixes a positive and a negative recognised
\* entry with an unrecognised entry carrying money
C1_Witness ==
    /\ RentsDone
    /\ aggAcc.positiveCents > 0
    /\ aggAcc.negativeCents < 0
    /\ \E i \in 1..Len(aggEntries) :
          ~Recognised(aggEntries[i]) /\ NetOf(aggEntries[i]) # 0

(* C2: every day bucket returned by aggregateRents has netCents = the      *)
(* signed sum of net over the recognised entries of that civil date and    *)
(* rents = the number of those with type charge and net > 0; the entries   *)
(* [charge 300 day1, stripe_fee -9 day1, charge 500 day2] with dayKeys     *)
(* [day1, day2] give 800, -9, day1 = {1, 291}, day2 = {1, 500}.            *)
C2_Scenario ==
    <<Bt(Day1, Some("charge"), Some(300)),
      Bt(Day1, Some("stripe_fee"), Some(-9)),
      Bt(Day2, Some("charge"), Some(500))>>

C2_RentsPerDay ==
    RentsDone =>
        /\ \A k \in DOMAIN aggAcc.byDay :
              /\ aggAcc.byDay[k].netCents = DayNet(aggEntries, k)
              /\ aggAcc.byDay[k].rents = DayRents(aggEntries, k)
        /\ (aggEntries = C2_Scenario /\ aggDayKeys = DayKeysOf(<<Day1, Day2>>)) =>
              /\ aggAcc.positiveCents = 800
              /\ aggAcc.negativeCents = -9
              /\ DOMAIN aggAcc.byDay = {Day1, Day2}
              /\ aggAcc.byDay[Day1].rents = 1 /\ aggAcc.byDay[Day1].netCents = 291
              /\ aggAcc.byDay[Day2].rents = 1 /\ aggAcc.byDay[Day2].netCents = 500

\* the end-to-end scenario, folded to the end
C2_Witness ==
    /\ RentsDone
    /\ aggEntries = C2_Scenario
    /\ aggDayKeys = DayKeysOf(<<Day1, Day2>>)

(* C3: for charges with amount_captured >= 0 and amount_refunded >= 0, the *)
(* sum of netCents over all day buckets of aggregateCharges equals         *)
(* positiveCents - negativeCents.                                          *)
C3_Pre ==
    \A i \in 1..Len(aggEntries) :
        /\ aggEntries[i].amount_captured # None
        /\ aggEntries[i].amount_captured[1] >= 0
        /\ aggEntries[i].amount_refunded # None
        /\ aggEntries[i].amount_refunded[1] >= 0

C3_ChargesReconcile ==
    (ChargesDone /\ C3_Pre) =>
        SumBuckets(aggAcc.byDay, DOMAIN aggAcc.byDay)
            = aggAcc.positiveCents - aggAcc.negativeCents

\* a finished call over a partly refunded capture and a zero-capture refund
C3_Witness ==
    /\ ChargesDone /\ C3_Pre
    /\ \E i \in 1..Len(aggEntries) :
          aggEntries[i].amount_captured[1] = 0 /\ aggEntries[i].amount_refunded[1] > 0
    /\ \E i \in 1..Len(aggEntries) :
          aggEntries[i].amount_captured[1] > 0 /\ aggEntries[i].amount_refunded[1] > 0
    /\ aggAcc.negativeCents > 0

(* C4: a charge whose captured amount is 0 is excluded entirely by         *)
(* aggregateCharges: folding it changes neither total, changes no day's    *)
(* netCents or rents, and creates no day bucket.                           *)
ZeroCapture(ch) ==
    (IF ch.amount_captured # None THEN ch.amount_captured[1]
     ELSE IF ch.amount # None THEN ch.amount[1] ELSE 0) = 0

C4_ZeroCaptureExcluded ==
    [][(ChargesStep /\ ZeroCapture(aggEntries[aggIdx + 1])) => aggAcc' = aggAcc]_vars

(* C6: when dayKeys is supplied, the byDay map returned by aggregateRents  *)
(* and aggregateCharges has exactly the supplied dates as its keys, for    *)
(* every entry list.                                                       *)
C6_KeySetIsWindow ==
    (aggPolicy # "none" /\ aggIdx = Len(aggEntries) /\ aggDayKeys.isArray) =>
        DOMAIN aggAcc.byDay = KeySet(aggDayKeys)

BucketOr0(byDay, key) ==
    IF key \in DOMAIN byDay THEN byDay[key]
    ELSE [date |-> formatDateLabel(key), rents |-> 0, netCents |-> 0]

SumOfParts(whole, a, b) ==
    /\ whole.positiveCents = a.positiveCents + b.positiveCents
    /\ whole.negativeCents = a.negativeCents + b.negativeCents
    /\ DOMAIN whole.byDay = DOMAIN a.byDay \cup DOMAIN b.byDay
    /\ \A k \in DOMAIN whole.byDay :
          /\ whole.byDay[k].netCents
                = BucketOr0(a.byDay, k).netCents + BucketOr0(b.byDay, k).netCents
          /\ whole.byDay[k].rents
                = BucketOr0(a.byDay, k).rents + BucketOr0(b.byDay, k).rents

C12_ChargesAdditive ==
    ChargesDone =>
        \A k \in 0..Len(aggEntries) :
            \E a \in {aggregateCharges(SubSeq(aggEntries, 1, k), aggDayKeys)} :
            \E b \in {aggregateCharges(SubSeq(aggEntries, k + 1, Len(aggEntries)),
                                       aggDayKeys)} :
                SumOfParts(aggAcc, a, b)

\* a finished call over three charges, two of them rents of the same day
C12_Witness ==
    /\ ChargesDone
    /\ Len(aggEntries) = 3
    /\ \E k \in DOMAIN aggAcc.byDay : aggAcc.byDay[k].rents >= 2
    /\ aggAcc.negativeCents > 0

----------------------------------------------------------------------------
(* Reference day of an instant while Chicago is six hours behind UTC *)

UtcDate(unixSeconds) == CivilFromDays(unixSeconds \div 86400)

UtcSecondOfDay(unixSeconds) == unixSeconds % 86400

\* before 06:00 UTC the local clock still shows the day before
WinterDay(unixSeconds) ==
    IF UtcSecondOfDay(unixSeconds) < 6 * 3600
    THEN PlusDays(UtcDate(unixSeconds), -1)
    ELSE UtcDate(unixSeconds)

\* whether Chicago is on standard time (UTC-6) at the instant: outside the
\* months March to November, or on the first days of March
InWinter(unixSeconds) ==
    \/ UtcDate(unixSeconds)[2] \in {12, 1, 2}
    \/ UtcDate(unixSeconds)[2] = 3 /\ UtcDate(unixSeconds)[3] <= 7

WinterDayNet(bts, key) ==
    SumOf([i \in 1..Len(bts) |->
              IF Recognised(bts[i]) /\ WinterDay(bts[i].created) = key
              THEN NetOf(bts[i]) ELSE 0])

(* C21: the day key of an entry is its civil date in America/Chicago, not  *)
(* its UTC date: while Chicago is at UTC-6, a recognised entry created at  *)
(* 05:59 UTC is counted in the bucket of the previous civil day and one    *)
(* created at 06:00 UTC in the bucket of the current civil day; each       *)
(* bucket holds the net of exactly the entries of its local day.           *)
C21_Scenario ==
    <<BtAt(AtUtc(Day2, 5 * 3600 + 59 * 60), Some("charge"), Some(500)),
      BtAt(AtUtc(Day2, 6 * 3600), Some("charge"), Some(300))>>

C21_DayKeyIsLocalDate ==
    (RentsDone /\ \A i \in 1..Len(aggEntries) : InWinter(aggEntries[i].created)) =>
        /\ \A i \in 1..Len(aggEntries) :
              Recognised(aggEntries[i]) =>
                  WinterDay(aggEntries[i].created) \in DOMAIN aggAcc.byDay
        /\ \A k \in DOMAIN aggAcc.byDay :
              aggAcc.byDay[k].netCents = WinterDayNet(aggEntries, k)
        /\ aggEntries = C21_Scenario =>
              /\ DOMAIN aggAcc.byDay = KeySet(aggDayKeys) \cup {Day1, Day2}
              /\ aggAcc.byDay[Day1].netCents = 500 /\ aggAcc.byDay[Day1].rents = 1
              /\ aggAcc.byDay[Day2].netCents = 300 /\ aggAcc.byDay[Day2].rents = 1

\* both sides of local midnight in one call: the two entries share their
\* UTC date and land in different buckets
C21_Witness ==
    /\ RentsDone
    /\ aggEntries = C21_Scenario
    /\ aggAcc.byDay[Day1].netCents = 500
    /\ aggAcc.byDay[Day2].netCents = 300

----------------------------------------------------------------------------
(* Reference dates of a request, written from the stated properties *)

Windowed == {"mtd", "mtd_station", "range", "from"}

Today == chicagoDateStringFromUnix(now)

\* first and last civil date of the primary window of the request
StartDay ==
    IF req.route \in {"mtd", "mtd_station"} THEN <<Today[1], Today[2], 1>>
    ELSE req.from[1]

EndDay == IF req.route = "range" THEN req.to[1] ELSE Today

\* the same day-of-month one calendar month earlier (possibly no date)
SameDayLastMonth(date) ==
    <<IF date[2] = 1 THEN date[1] - 1 ELSE date[1],
      IF date[2] = 1 THEN 12 ELSE date[2] - 1,
      date[3]>>

\* the last day of the month of a (possibly non-existent) date
LastOfMonth(date) == <<date[1], date[2], DaysInMonth(date[1], date[2])>>

\* one calendar month earlier, kept inside the month
ShiftedBack(date) ==
    IF ValidDate(SameDayLastMonth(date)) THEN SameDayLastMonth(date)
    ELSE LastOfMonth(SameDayLastMonth(date))

\* an instant is the first / the last second of the civil date
StartsDay(unix, date) ==
    /\ chicagoDateStringFromUnix(unix) = date
    /\ chicagoDateStringFromUnix(unix - 1) # date

EndsDay(unix, date) ==
    /\ chicagoDateStringFromUnix(unix) = date
    /\ chicagoDateStringFromUnix(unix + 1) # date

Answered200 == pc = "done" /\ resp.success

(* C5: for /rents/mtd, /rents/mtd/:station_id, /rents/range and           *)
(* /rents/from the data of a successful response has exactly               *)
(* endDay - startDay + 1 rows, one per civil date from startDay to endDay, *)
(* in ascending order, whatever the upstream returned.                     *)
C5_RowPerDay ==
    (Answered200 /\ req.route \in Windowed) =>
        /\ Len(resp.data) = DaysFromCivil(EndDay) - DaysFromCivil(StartDay) + 1
        /\ \A i \in 1..Len(resp.data) :
              resp.data[i].date =
                  formatDateLabel(CivilFromDays(DaysFromCivil(StartDay) + i - 1))

\* a month-to-date report of 31 rows with activity on one of them
C5_Witness ==
    /\ Answered200 /\ req.route = "mtd"
    /\ Len(resp.data) = 31
    /\ \E i \in 1..Len(resp.data) : resp.data[i].rents > 0

(* C7 as stated: for /rents/recent the number of rows equals the number of *)
(* distinct civil dates among the fetched entries, in ascending order.     *)
FetchedDates ==
    {chicagoDateStringFromUnix(fetch["primary"].all[i].created) :
        i \in 1..Len(fetch["primary"].all)}

RecognisedDates ==
    {chicagoDateStringFromUnix(fetch["primary"].all[i].created) :
        i \in {j \in 1..Len(fetch["primary"].all) :
                  Recognised(fetch["primary"].all[j])}}

C8_MissingDayIsZero ==
    (Answered200 /\ req.route \in Windowed) =>
        \A i \in 1..Len(resp.data) :
            ~ValidDate(SameDayLastMonth(PlusDays(StartDay, i - 1))) =>
                /\ resp.data[i].prents = 0
                /\ resp.data[i].pmoney = MoneyStr(FALSE, 0)

(* C9: for a month-to-date report the comparison window starts on the      *)
(* first day of the previous civil month and ends on today's day-of-month  *)
(* in that month, clamped to its last day; its end never falls in the      *)
(* current month.                                                          *)
C9_MtdComparisonWindow ==
    (pc = "fetch" /\ req.route \in {"mtd", "mtd_station"}) =>
        /\ StartsDay(fetch["comparison"].gte,
                     SameDayLastMonth(<<Today[1], Today[2], 1>>))
        /\ EndsDay(fetch["comparison"].lte, ShiftedBack(Today))
        /\ fetch["comparison"].lte < fetch["primary"].gte
        /\ StartsDay(fetch["primary"].gte, <<Today[1], Today[2], 1>>)

\* today is the 31st and the previous month has 30 days
C9_Witness ==
    /\ pc = "fetch" /\ req.route = "mtd"
    /\ Today = <<2026, 5, 31>>
    /\ chicagoDateStringFromUnix(fetch["comparison"].lte) = <<2026, 4, 30>>

(* C10 as stated: for every valid range the comparison window of           *)
(* /rents/range and /rents/from has as many civil days as the primary one. *)
WindowDays(f) ==
    DaysFromCivil(chicagoDateStringFromUnix(f.lte))
        - DaysFromCivil(chicagoDateStringFromUnix(f.gte)) + 1

C10_Original ==
    (pc = "fetch" /\ req.route \in {"range", "from"}) =>
        WindowDays(fetch["comparison"]) = WindowDays(fetch["primary"])

(* C10 amended: the comparison window of /rents/range and /rents/from runs *)
(* from `from` to `to`, each moved back one calendar month with its        *)
(* day-of-month kept or clamped to the last day of that month; it is never *)
(* empty, and it has as many days as the primary window when from and to   *)
(* lie in one month and to's day-of-month exists in the month before.      *)
C10_ShiftedWindow ==
    (pc = "fetch" /\ req.route \in {"range", "from"}) =>
        /\ StartsDay(fetch["primary"].gte, StartDay)
        /\ EndsDay(fetch["primary"].lte, EndDay)
        /\ StartsDay(fetch["comparison"].gte, ShiftedBack(StartDay))
        /\ EndsDay(fetch["comparison"].lte, ShiftedBack(EndDay))
        /\ fetch["comparison"].gte < fetch["comparison"].lte
        /\ (/\ StartDay[1] = EndDay[1] /\ StartDay[2] = EndDay[2]
            /\ ValidDate(SameDayLastMonth(EndDay)))
              => WindowDays(fetch["comparison"]) = WindowDays(fetch["primary"])

\* a range inside one month whose comparison window has the same length
C10_Witness ==
    /\ pc = "fetch" /\ req.route = "range"
    /\ WindowDays(fetch["primary"]) = 15
    /\ WindowDays(fetch["comparison"]) = 15

----------------------------------------------------------------------------
(* Reference notions of the fetch, failure and parameter properties *)

Fetches == {"primary", "comparison"}

Last(s) == s[Len(s)]

RECURSIVE FlattenIds(_, _)
\* the ids of the pages of a log from page k on, in order
FlattenIds(log, k) ==
    IF k > Len(log) THEN <<>> ELSE log[k].ids \o FlattenIds(log, k + 1)

\* the ledger the fetches of the request read
LedgerOf(r) == IF r.route = "mtd_station" THEN charges ELSE txns

\* positions of the ledger entries inside the window (and of the customer)
Matching(f, ledger) ==
    {i \in 1..Len(ledger) :
        /\ f.gte <= ledger[i].created /\ ledger[i].created <= f.lte
        /\ f.customer # None => ledger[i].customer = f.customer[1]}

Fetching == pc \in {"fetch", "done"} /\ req.route \in Windowed /\ io.list > 0

(* C13: a ledger fetch requests its first page without a cursor, each      *)
(* following page with the id of the last entry of the page before, stops  *)
(* exactly when a page reports has_more = false, and returns the pages     *)
(* concatenated in request order, each entry of the window exactly once.   *)
C13_Pagination ==
    Fetching =>
        \A w \in Fetches :
            \E f \in {fetch[w]} :
                /\ \A k \in 1..Len(f.log) :
                      f.log[k].cursor =
                          IF k = 1 THEN None ELSE Some(Last(f.log[k - 1].ids))
                /\ \A k \in 1..(Len(f.log) - 1) : f.log[k].has_more
                /\ f.done <=> (Len(f.log) > 0 /\ ~Last(f.log).has_more)
                /\ IdsOf(f.all) = FlattenIds(f.log, 1)
                /\ \A i, j \in 1..Len(f.all) : f.all[i].id = f.all[j].id => i = j
                /\ f.done =>
                      /\ {f.all[i].id : i \in 1..Len(f.all)} = Matching(f, LedgerOf(req))
                      /\ \A i \in 1..Len(f.all) :
                            f.all[i] = WithId(LedgerOf(req)[f.all[i].id], f.all[i].id)

\* a fetch that needed two pages has returned three entries
C13_Witness ==
    /\ Fetching
    /\ fetch["primary"].done
    /\ Len(fetch["primary"].log) = 2
    /\ Len(fetch["primary"].all) = 3

(* C14: if a page call of the primary or the comparison fetch fails, the   *)
(* request ends with a {success: false} response carrying the upstream     *)
(* status code (500 when there is none); no entry of a page already        *)
(* retrieved is returned, and a success response is only ever produced     *)
(* from two complete fetches.                                              *)
C14_UpstreamFailure ==
    /\ (pc = "done" /\ io.error # None) =>
          /\ ~resp.success
          /\ resp.kind = "error"
          /\ resp.status = (IF io.error[1] = None THEN 500 ELSE io.error[1][1])
          /\ resp.data = <<>>
          /\ resp.positive = 0 /\ resp.negative = 0
    /\ (pc = "done" /\ resp.success /\ req.route \in Windowed) =>
          /\ io.error = None
          /\ \A w \in Fetches :
                {fetch[w].all[i].id : i \in 1..Len(fetch[w].all)}
                    = Matching(fetch[w], LedgerOf(req))

\* a month-to-date request whose primary fetch had retrieved a page when a
\* later page call was rejected with status 429
C14_Witness ==
    /\ pc = "done" /\ req.route = "mtd"
    /\ io.error = Some(Some(429))
    /\ Len(fetch["primary"].all) > 0
    /\ ~fetch["primary"].done

(* C15: within one report request the primary and the comparison fetch run *)
(* concurrently, aggregation never starts before both have completed, and  *)
(* a single fetch never has more than one page request outstanding.        *)
C15_JoinedFetches ==
    /\ \A w \in Fetches : fetch[w].outstanding \in {0, 1}
    /\ pc = "fetch" =>
          \A w \in Fetches : fetch[w].outstanding = (IF fetch[w].done THEN 0 ELSE 1)
    /\ (pc = "done" /\ resp.kind = "report") =>
          /\ \A w \in Fetches : fetch[w].done /\ fetch[w].outstanding = 0
          /\ Len(io.order) = Len(fetch["primary"].log) + Len(fetch["comparison"].log)

\* a report whose comparison page arrived between two primary pages
C15_Witness ==
    /\ pc = "done" /\ resp.kind = "report"
    /\ io.order = <<"primary", "comparison", "primary">>

(* C16: GET /rents/range with from later than to, GET /rents/from with     *)
(* from later than today, and a request missing a required date parameter  *)
(* answer 400 with {success: false}; no upstream ledger call is issued.    *)
Refused400 ==
    /\ pc = "done"
    /\ resp.status = 400 /\ ~resp.success
    /\ io.list = 0

BothDates(a, b) == a # None /\ b # None /\ ValidDate(a[1]) /\ ValidDate(b[1])

C16_InvalidRange ==
    (stripe /\ pc # "idle") =>
        /\ (req.route = "range" /\ (req.from = None \/ req.to = None)) => Refused400
        /\ (req.route = "range" /\ BothDates(req.from, req.to)
              /\ DaysFromCivil(req.from[1]) > DaysFromCivil(req.to[1])) => Refused400
        /\ (req.route = "from" /\ req.from = None) => Refused400
        /\ (req.route = "from" /\ BothDates(req.from, Some(Today))
              /\ DaysFromCivil(req.from[1]) > DaysFromCivil(Today)) => Refused400

\* /rents/from with a date after today has been refused
C16_Witness ==
    /\ Refused400
    /\ req.route = "from"
    /\ req.from # None /\ DaysFromCivil(req.from[1]) > DaysFromCivil(Today)

(* C17: for GET /rents/mtd/:station_id a station id without a directory    *)
(* record yields 404 and a record whose stripe_id is null or blank yields  *)
(* 400, in both cases without a charge fetch; the database client acquired *)
(* for the lookup is released exactly once on every path.                  *)
StationLookup ==
    /\ req.route = "mtd_station" /\ pc # "idle"
    /\ stripe /\ Trim(req.station_id) # "" /\ req.db = "ok"

C17_StationLookup ==
    /\ (StationLookup /\ Trim(req.station_id) \notin DOMAIN StationRows) =>
          pc = "done" /\ resp.status = 404 /\ ~resp.success /\ io.list = 0
    /\ (StationLookup /\ Trim(req.station_id) \in DOMAIN StationRows
          /\ StationRows[Trim(req.station_id)] \in {None, Some(""), Some("  ")}) =>
          pc = "done" /\ resp.status = 400 /\ ~resp.success /\ io.list = 0
    /\ (req.route = "mtd_station" /\ pc = "fetch") =>
          io.connects = 1 /\ io.releases = 0
    /\ (req.route = "mtd_station" /\ pc = "done") =>
          io.connects \in {0, 1} /\ io.releases = io.connects

\* a station request that failed upstream after the lookup has released
\* its client
C17_Witness ==
    /\ req.route = "mtd_station" /\ pc = "done"
    /\ io.error # None /\ io.list > 0
    /\ io.connects = 1 /\ io.releases = 1

(* C18: without the payments-source credential every /rents/* and          *)
(* /stripe/* route answers 503 with {success: false} and issues no         *)
(* upstream or database call; nothing is retried.                          *)
PaymentRoutes ==
    {"mtd", "mtd_station", "range", "from", "recent", "stripe_charges",
     "stripe_balance_transactions"}

C18_NotConfigured ==
    ~stripe =>
        /\ pc \in {"idle", "done"}
        /\ io = NoIo
        /\ (pc = "done" /\ req.route \in PaymentRoutes) => resp = ErrorResp(503)

\* /stripe/charges has answered 503
C18_Witness ==
    /\ ~stripe /\ pc = "done"
    /\ req.route = "stripe_charges"
    /\ resp.status = 503

(* C19: GET /rents/recent clamps its limit: a limit above 100 behaves as   *)
(* 100, and a non-numeric or absent limit behaves as the default 10.       *)
NumericStrings == {"500", "2", "1", "0", "-5"}

NumberOf(str) ==
    IF str = "500" THEN 500 ELSE IF str = "2" THEN 2 ELSE IF str = "1" THEN 1
    ELSE IF str = "0" THEN 0 ELSE -5

C19_LimitClamp ==
    (req.route = "recent" /\ pc \in {"list", "done"} /\ io.list > 0) =>
        /\ (req.limit = None \/ req.limit[1] \notin NumericStrings)
              => io.limit = Some(10)
        /\ (req.limit # None /\ req.limit[1] \in NumericStrings
              /\ NumberOf(req.limit[1]) > 100) => io.limit = Some(100)

(* C29: for every value of the limit query parameter the limit sent        *)
(* upstream by /rents/recent, /stripe/charges and                          *)
(* /stripe/balance-transactions is an integer between 1 and 100.           *)
LimitRoutes == {"recent", "stripe_charges", "stripe_balance_transactions"}

C29_LimitInRange ==
    (req.route \in LimitRoutes /\ io.list > 0) =>
        (io.limit # None /\ io.limit[1] \in 1..100)

(* C20: for every integer netCents the money display string is "$" and     *)
(* cents / 100 rounded to the nearest integer, exact halves rounded up,    *)
(* without a fractional part.                                              *)
HalfUp(cents) == (cents + 50) \div 100

HalfUpMoney(cents) ==
    MoneyStr(HalfUp(cents) < 0,
             IF HalfUp(cents) < 0 THEN -HalfUp(cents) ELSE HalfUp(cents))

C20_MoneyHalfUp ==
    (Answered200 /\ req.route = "recent") =>
        \A k \in RecognisedDates :
            resp.data[1 + Cardinality({e \in RecognisedDates : DateLess(e, k)})].money
                = HalfUpMoney(DayNet(fetch["primary"].all, k))

----------------------------------------------------------------------------
(* Reference notions of the station list *)

\* the ids of a dot-separated station_id parameter
DotSeparated(str) == IF str = "s1.s4" THEN <<"s1", "s4">> ELSE <<Trim(str)>>

\* the customers of a list of stations
CustomersOf(ids) == {Trim(StationRows[ids[i]][1]) : i \in 1..Len(ids)}

\* the charges of the window of a fetch that belong to one of the customers
ChargesOfStations(f, customers) ==
    {i \in 1..Len(charges) :
        /\ charges[i].customer \in customers
        /\ charges[i].created >= f.gte
        /\ charges[i].created <= f.lte}

\* what the listed charges captured
CapturedBy(S) ==
    SumOf([i \in 1..Len(charges) |->
              IF i \in S
              THEN (IF charges[i].amount_captured # None
                    THEN charges[i].amount_captured[1]
                    ELSE IF charges[i].amount # None THEN charges[i].amount[1] ELSE 0)
              ELSE 0])

(* C22: GET /rents/mtd/:station_id accepts a dot-separated list of station *)
(* ids: for the list s1.s4 (both stations exist and have a stripe_id) the  *)
(* request is answered with a report over the charges of both stations and *)
(* the response carries the station_ids array [s1, s4].                    *)
C22_StationList ==
    (/\ req.route = "mtd_station"
     /\ Len(DotSeparated(req.station_id)) > 1
     /\ req.db = "ok"
     /\ stripe
     /\ pc = "done"
     /\ io.error = None) =>
        /\ resp.status = 200
        /\ resp.station_ids = Some(DotSeparated(req.station_id))
        /\ resp.positive =
              CapturedBy(ChargesOfStations(fetch["primary"],
                                           CustomersOf(DotSeparated(req.station_id))))

(* C23: GET /stations/export returns the station list as a CSV file     *)
(* download; it is never answered by the single-station handler of        *)
(* GET /stations/:id with id = "export".                                   *)
C23_ExportIsCsv ==
    (pc = "done" /\ req.path = <<"stations", "export">> /\ req.db = "ok") =>
        /\ req.route = "stations_export"
        /\ resp.status = 200
        /\ resp.kind = "csv"

----------------------------------------------------------------------------
(* Token refresh, token table and pop commands *)

\* a request that has started and not answered yet
Busy(p) == proc[p].pc \notin {"idle", "done"}

(* C24: token refresh is single-flight within a module: at most one        *)
(* request to the token endpoint is in flight per module at any time, a    *)
(* caller that calls refreshToken while a refresh is in flight awaits that *)
(* same refresh, and a pending reset of the guard belongs to the refresh   *)
(* the guard holds, with no newer refresh in flight.                       *)
C24_SingleFlight ==
    /\ \A m \in Modules : Cardinality(InFlight(m)) <= 1
    /\ \A p \in Procs :
          (proc[p].pc = "await_refresh" /\ proc[p].inflightAtCall # 0) =>
              proc[p].awaiting = proc[p].inflightAtCall
    /\ \A q \in timers :
          /\ tokenRefreshPromise[ModuleOf(q)] = q
          /\ refresh[q].state = "settled"
          /\ InFlight(ModuleOf(q)) = {}

\* the second pop request has joined the refresh the first one started
C24_Witness ==
    /\ partner = "pop"
    /\ refresh[1].state = "pending"
    /\ proc[1].pc = "await_refresh" /\ proc[1].awaiting = 1
    /\ proc[2].pc = "await_refresh" /\ proc[2].awaiting = 1
    /\ proc[2].inflightAtCall = 1

(* C25: after any interleaving of token saves (the GET /token route, the   *)
(* retry paths of sendPopCommand and getOrderData, updateTokenInDatabase)  *)
(* the token table holds at most one row.                                  *)
C25_OneTokenRow == Len(tokenRows) <= 1

(* C26: one invocation of sendPopCommand (and of getOrderData) sends at    *)
(* most two command requests and calls refreshToken at most once, a        *)
(* retried request never refreshes again whatever its outcome, and every   *)
(* request that has started comes to its response.                         *)
C26_RetryOnce ==
    /\ [](\A p \in Procs :
            /\ proc[p].cmds <= 2
            /\ proc[p].refreshes <= 1
            /\ proc[p].isRetry =>
                  (proc[p].cmds = 2 /\ proc[p].refreshes = 1
                     /\ proc[p].pc \in {"send", "done"}))
    /\ \A p \in Procs : Busy(p) ~> (proc[p].pc = "done")

\* the retried request of an invocation is in flight, after its one refresh
C26_Witness ==
    /\ proc[1].route = "pop_slot"
    /\ proc[1].pc = "send"
    /\ proc[1].isRetry
    /\ proc[1].cmds = 2 /\ proc[1].refreshes = 1

(* C27: a path slot that is not an integer in 1..6 is answered 400 without *)
(* any command sent upstream; every command sent upstream carries a slot   *)
(* in 1..6; POST /pop/:station_id/all sends its commands one at a time in  *)
(* ascending slot order and reports as count the number of slots whose     *)
(* command succeeded, at most 6.                                           *)
IntegerSlots == {"1", "2", "3", "4", "5", "6"}

C27_PopSlots ==
    \A p \in Procs :
        /\ proc[p].lastCmd \in 0..6
        /\ (proc[p].route \in {"pop_slot", "pop_all"} /\ proc[p].pc = "send") =>
              proc[p].lastCmd \in 1..6
        /\ (proc[p].route = "pop_slot" /\ proc[p].path[3] \notin IntegerSlots) =>
              /\ proc[p].pc = "done"
              /\ proc[p].status = 400
              /\ proc[p].lastCmd = 0
        /\ proc[p].route = "pop_all" =>
              /\ Busy(p) /\ proc[p].pc # "token" => proc[p].lastCmd = proc[p].slot
              /\ proc[p].pushed = proc[p].okSlots
              /\ proc[p].pushed <= proc[p].lastCmd
              /\ (proc[p].pc = "done" /\ proc[p].status = 200) =>
                    /\ proc[p].lastCmd = 6
                    /\ proc[p].count = proc[p].okSlots

----------------------------------------------------------------------------
(* The Telegram command poller *)

\* polls pending on a timer or in flight
PollsAlive == polling.scheduled + Len(polling.requests)

(* C28: the poller is a single self-rescheduling loop: after every poll    *)
(* outcome exactly one next poll is scheduled, so exactly one poll is      *)
(* pending or in flight at any time and polls keep being sent;             *)
(* lastUpdateId never decreases; a getUpdates call never asks for an       *)
(* update whose id is <= lastUpdateId and no update is handled twice.      *)
C28_SinglePollLoop ==
    /\ [](/\ PollsAlive = 1
          /\ \A i \in 1..Len(polling.requests) :
                /\ polling.requests[i] = OffsetOf(polling.lastUpdateId)
                /\ ResultFor(polling.requests[i]) \cap 1..polling.lastUpdateId = {}
          /\ \A u \in 1..MaxUpdate :
                /\ telegram.handled[u] <= 1
                /\ u <= polling.lastUpdateId => u < telegram.next)
    /\ [][polling'.lastUpdateId >= polling.lastUpdateId]_vars
    /\ []<>(polling.requests # <<>>)
    /\ []<>(polling.scheduled = 1)

\* three updates were fetched and handled once each; Telegram still stores
\* the third, and the next poll is pending on its timer
C28_Witness ==
    /\ polling.lastUpdateId = 3
    /\ polling.scheduled = 1
    /\ telegram.handled = [u \in 1..MaxUpdate |-> IF u <= 3 THEN 1 ELSE 0]
    /\ telegram.unconfirmed = {3}
    /\ telegram.next = 4

----------------------------------------------------------------------------
(* The sign convention of the reports *)

ReportRoutes == {"mtd", "mtd_station", "range", "from", "recent"}

(* C30: in every successful report response of every mode (mtd,            *)
(* mtd/:station_id, range, from, recent) positive >= 0 and negative <= 0,  *)
(* and likewise ppositive >= 0 and pnegative <= 0.                         *)
C30_SignConvention ==
    (Answered200 /\ req.route \in ReportRoutes) =>
        /\ resp.positive >= 0
        /\ resp.negative <= 0
        /\ resp.ppositive >= 0
        /\ resp.pnegative <= 0

\* the station route answered with captures and refunds in its comparison
\* window
C30_Witness ==
    /\ Answered200
    /\ req.route = "mtd_station"
    /\ resp.ppositive > 0
    /\ resp.pnegative < 0

====
